---- MODULE Spec2Model ----
(***************************************************************************)
(* A model of gemini-chat-api-rs: the AsyncChatbot session client          *)
(* (src/src/client.rs), its upload collaborator (src/src/utils.rs) and     *)
(* the Model name table (src/src/enums.rs).                                *)
(*                                                                         *)
(* One client is modelled.  Every method that takes &mut self holds the    *)
(* session exclusively until its future completes, so the position of the  *)
(* one running method is a single program counter, pc.  The network calls  *)
(* are the suspension points: a request is sent in one step and the        *)
(* collaborator's answer is received in the next.                          *)
(***************************************************************************)
EXTENDS Integers, Sequences, FiniteSets, TLC

(***************************************************************************)
(* Bounds of the model.                                                    *)
(***************************************************************************)
\* generate requests sent by one behaviour
MaxAsks == 2
\* successful save_conversation calls in one behaviour
MaxSaves == 2
\* entries of a cookie file
MaxCookies == 3
\* the same, in the behaviours that start from an absent or empty file
MaxFreshSaves == 3

(***************************************************************************)
(* u32: the nonce is a 32-bit unsigned integer.  It is held as two 16-bit  *)
(* halves <<hi, lo>> so that every value of the type can be written and    *)
(* the arithmetic of the type (carry, overflow) is computed exactly.       *)
(***************************************************************************)
Base == 65536

U32(k) == <<k \div Base, k % Base>>

U32Lt(a, b) == a[1] < b[1] \/ (a[1] = b[1] /\ a[2] < b[2])

U32Le(a, b) == a = b \/ U32Lt(a, b)

\* the largest value of the type, 4294967295
U32Max == <<Base - 1, Base - 1>>

\* a + d carries out of 32 bits (d is a small natural)
AddOverflows(a, d) == a[1] + ((a[2] + d) \div Base) >= Base

\* a + d modulo 2^32
WrappingAdd(a, d) ==
  LET s == a[2] + d
  IN  <<(a[1] + (s \div Base)) % Base, s % Base>>

(***************************************************************************)
(* u32 <-> decimal text.  A text of digits is a sequence over 0..9.        *)
(***************************************************************************)
RECURSIVE Digits(_)
Digits(n) ==
  IF n = <<0, 0>> THEN <<>>
  ELSE LET t == (n[1] % 10) * Base + n[2]
       IN  Append(Digits(<<n[1] \div 10, t \div 10>>), t % 10)

\* u32::to_string, and serde_json's writing of a u32
U32ToString(n) == IF n = <<0, 0>> THEN <<0>> ELSE Digits(n)

RECURSIVE ParseDigits(_, _)
\* acc is [ok, v]; ok turns FALSE when the number leaves the type
ParseDigits(ds, acc) ==
  IF ds = <<>> \/ ~acc.ok THEN acc
  ELSE LET t  == acc.v[2] * 10 + Head(ds)
           hi == acc.v[1] * 10 + (t \div Base)
       IN  ParseDigits(Tail(ds),
                       IF hi >= Base THEN [ok |-> FALSE, v |-> <<0, 0>>]
                       ELSE [ok |-> TRUE, v |-> <<hi, t % Base>>])

\* serde_json's reading of a u32 field
ParseU32(ds) ==
  IF ds = <<>> THEN [ok |-> FALSE, v |-> <<0, 0>>]
  ELSE ParseDigits(ds, [ok |-> TRUE, v |-> <<0, 0>>])

(***************************************************************************)
(* serde_json::Value.  Every value has the same three fields: its type t,  *)
(* a string s (the content of a string value) and a sequence a (the        *)
(* elements of an array).  A string whose characters are themselves the    *)
(* JSON text of a value v is JsonText(v): serde_json::to_string(v) wrapped *)
(* as a string value, which serde_json::from_str turns back into v.        *)
(***************************************************************************)
Null == [t |-> "null", s |-> "", a |-> <<>>]

Str(x) == [t |-> "str", s |-> x, a |-> <<>>]

Num(x) == [t |-> "num", s |-> x, a |-> <<>>]

Arr(xs) == [t |-> "arr", s |-> "", a |-> xs]

JsonText(v) == [t |-> "text", s |-> "", a |-> <<v>>]

\* Option::None of an accessor chain
NoValue == [t |-> "none", s |-> "", a |-> <<>>]

\* v.as_array().and_then(|a| a.get(i)), with NoValue passed through
At(v, i) ==
  IF v.t = "arr" /\ i + 1 <= Len(v.a) THEN v.a[i + 1] ELSE NoValue

\* v.as_str() is Some: a string value (a JSON text held in a string is one)
IsStr(v) == v.t \in {"str", "text"}

\* v.is_null()
IsNull(v) == v.t = "null"

\* .and_then(|v| v.as_str()).unwrap_or(d)
StrOr(v, d) == IF v.t = "str" THEN v.s ELSE d

\* serde_json::from_str of the characters of a string value
FromStr(v) ==
  IF v.t = "text" THEN [ok |-> TRUE, v |-> v.a[1]]
  ELSE [ok |-> FALSE, v |-> NoValue]

(***************************************************************************)
(* Response text.  A text is the sequence of its lines (str::lines); a     *)
(* line is a sequence of tokens.  A token is one character, Ch(c), or the  *)
(* whole JSON text of a value, Doc(v), or that text without its first      *)
(* character, Cut(v) (what a byte offset inside a JSON text leaves).       *)
(***************************************************************************)
Ch(c) == [c |-> c, j |-> NoValue]

Doc(v) == [c |-> "doc", j |-> v]

Cut(v) == [c |-> "cut", j |-> v]

\* count characters in a row, each of width bytes in UTF-8 (width > 1: not
\* ASCII)
Run(width, count) ==
  [c |-> "run", j |-> NoValue, w |-> width, n |-> count]

\* the first character of the JSON text of v
FirstOfValue(v) ==
  CASE v.t = "arr" -> "["
    [] v.t \in {"str", "text"} -> "\""
    [] v.t = "null" -> "n"
    [] OTHER -> "0"

\* the second character of the JSON text of v
SecondOfValue(v) ==
  CASE v.t = "arr" /\ v.a = <<>> -> "]"
    [] v.t = "arr" -> FirstOfValue(v.a[1])
    [] v.t = "null" -> "u"
    [] OTHER -> "?"

\* the first character of a token
FirstChar(tok) ==
  CASE tok.c = "doc" -> FirstOfValue(tok.j)
    [] tok.c = "cut" -> SecondOfValue(tok.j)
    [] OTHER -> tok.c

\* the security prefix the decoder looks for (client.rs:339, 344)
Sentinel == <<Ch(")"), Ch("]"), Ch("}")>>

\* line.starts_with(")]}")
StartsWithSentinel(line) == Len(line) >= 3 /\ SubSeq(line, 1, 3) = Sentinel

\* line.get(4..).unwrap_or("") of a line that starts with the sentinel: the
\* first four bytes are dropped; a line of fewer than four bytes gives "".
\* The fourth byte is a character token or the first character of a JSON text.
GetFrom4(line) ==
  IF Len(line) < 4 THEN <<>>
  ELSE IF line[4].c = "doc" THEN <<Cut(line[4].j)>> \o SubSeq(line, 5, Len(line))
  ELSE SubSeq(line, 5, Len(line))

RECURSIVE TrimStart(_)
TrimStart(line) ==
  IF line # <<>> /\ Head(line) = Ch(" ") THEN TrimStart(Tail(line)) ELSE line

RECURSIVE TrimEnd(_)
TrimEnd(line) ==
  IF line # <<>> /\ line[Len(line)] = Ch(" ")
  THEN TrimEnd(SubSeq(line, 1, Len(line) - 1)) ELSE line

\* str::trim
Trim(line) == TrimEnd(TrimStart(line))

\* serde_json::from_str::<Value>(line): one JSON text, white space around it
\* allowed, nothing else
FromLine(line) ==
  LET t == Trim(line)
  IN  IF Len(t) = 1 /\ t[1].c = "doc" THEN [ok |-> TRUE, v |-> t[1].j]
      ELSE [ok |-> FALSE, v |-> NoValue]

\* client.rs:343-346
CleanLine(line) ==
  IF StartsWithSentinel(line) THEN Trim(GetFrom4(line)) ELSE line

\* client.rs:356-366: the envelope body a part carries, or NoValue
BodyOfPart(part) ==
  IF part.t = "arr" /\ Len(part.a) > 2 /\ part.a[1] = Str("wrb.fr")
     /\ IsStr(part.a[3]) /\ FromStr(part.a[3]).ok
  THEN LET main_part == FromStr(part.a[3]).v
       IN  IF main_part.t = "arr" /\ Len(main_part.a) > 4
              /\ ~IsNull(main_part.a[5])
           THEN main_part ELSE NoValue
  ELSE NoValue

RECURSIVE ScanPartsLast(_)
\* the last part, in element order, that carries a body
ScanPartsLast(parts) ==
  IF parts = <<>> THEN NoValue
  ELSE IF BodyOfPart(parts[Len(parts)]) # NoValue
  THEN BodyOfPart(parts[Len(parts)])
  ELSE ScanPartsLast(SubSeq(parts, 1, Len(parts) - 1))

RECURSIVE ScanParts(_)
\* client.rs:354-374: the first part, in element order, that carries a body
ScanParts(parts) ==
  IF parts = <<>> THEN NoValue
  ELSE IF BodyOfPart(Head(parts)) # NoValue THEN BodyOfPart(Head(parts))
  ELSE ScanParts(Tail(parts))

\* client.rs:339-375: the body one line carries, or NoValue
BodyOfLine(line) ==
  IF line = <<>> \/ line = Sentinel THEN NoValue
  ELSE LET clean_line == CleanLine(line)
       IN  IF clean_line = <<>> \/ FirstChar(Head(clean_line)) # "["
           THEN NoValue
           ELSE IF FromLine(clean_line).ok /\ FromLine(clean_line).v.t = "arr"
           THEN ScanParts(FromLine(clean_line).v.a)
           ELSE NoValue

\* client.rs:330: the snippet keeps at most this many bytes of the text
SnippetBytes == 200

RECURSIVE Joined(_)
\* the tokens of a text whose lines hold characters only, the lines joined by
\* the line feeds that text.lines() split at
Joined(lines) ==
  IF lines = <<>> THEN <<>>
  ELSE IF Len(lines) = 1 THEN Head(lines)
  ELSE Head(lines) \o <<Ch("\n")>> \o Joined(Tail(lines))

\* the bytes of a character token
TokenBytes(tok) == IF tok.c = "run" THEN tok.w * tok.n ELSE 1

RECURSIVE ByteLen(_)
\* str::len
ByteLen(toks) ==
  IF toks = <<>> THEN 0 ELSE TokenBytes(Head(toks)) + ByteLen(Tail(toks))

RECURSIVE IsCharBoundary(_, _)
\* str::is_char_boundary(k), for 0 <= k <= len
IsCharBoundary(toks, k) ==
  IF k = 0 \/ toks = <<>> THEN TRUE
  ELSE IF k >= TokenBytes(Head(toks))
  THEN IsCharBoundary(Tail(toks), k - TokenBytes(Head(toks)))
  ELSE Head(toks).c = "run" /\ k % Head(toks).w = 0

\* client.rs:330: &text[..text.len().min(200)] panics when the end of the
\* slice is inside a character.  Evaluated for texts of fewer than 3 lines,
\* which in the model hold characters only.
SnippetPanics(lines) ==
  LET toks == Joined(lines)
      end == IF ByteLen(toks) < SnippetBytes THEN ByteLen(toks)
             ELSE SnippetBytes
  IN  ~IsCharBoundary(toks, end)

RECURSIVE FindBody(_)
\* client.rs:335-381: the first body in line order
FindBody(lines) ==
  IF lines = <<>> THEN NoValue
  ELSE IF BodyOfLine(Head(lines)) # NoValue THEN BodyOfLine(Head(lines))
  ELSE FindBody(Tail(lines))

\* the content read from the first candidate's index 0
ContentOfCandidateId(body) == StrOr(At(At(At(body, 4), 0), 0), "")

\* the metadata read as its first element
FactualityQueriesFirst(body) == At(At(body, 3), 0)

\* client.rs:422: body_arr.get(3).cloned()
FactualityQueries(body) == At(body, 3)

\* client.rs:392-402
ContentOf(body) == StrOr(At(At(At(At(body, 4), 0), 1), 0), "")

RECURSIVE ChoicesOfAll(_)
\* a Choice of every candidate that is an array, whatever its length
ChoicesOfAll(candidates) ==
  IF candidates = <<>> THEN <<>>
  ELSE LET cand == Head(candidates)
       IN  IF cand.t = "arr"
           THEN <<[id |-> StrOr(At(cand, 0), ""),
                   content |-> StrOr(At(At(cand, 1), 0), "")]>>
                \o ChoicesOfAll(Tail(candidates))
           ELSE ChoicesOfAll(Tail(candidates))

RECURSIVE ChoicesOf(_)
\* client.rs:434-455 over the candidates
ChoicesOf(candidates) ==
  IF candidates = <<>> THEN <<>>
  ELSE LET cand == Head(candidates)
       IN  IF cand.t = "arr" /\ Len(cand.a) > 1
           THEN <<[id |-> StrOr(At(cand, 0), ""),
                   content |-> StrOr(At(At(cand, 1), 0), "")]>>
                \o ChoicesOf(Tail(candidates))
           ELSE ChoicesOf(Tail(candidates))

\* client.rs:432-456
Choices(body) ==
  IF At(body, 4).t = "arr" THEN ChoicesOf(At(body, 4).a) ELSE <<>>

(***************************************************************************)
(* enums.rs: the Model variants and their names.                           *)
(***************************************************************************)
Models ==
  {"Unspecified", "G2_0Flash", "G2_0FlashThinking", "G2_5Flash", "G2_5Pro",
   "G2_0ExpAdvanced", "G2_5ExpAdvanced"}

\* names of which two variants share one
NameShared(m) ==
  CASE m = "Unspecified" -> "unspecified"
    [] m = "G2_0Flash" -> "gemini-2.0-flash"
    [] m = "G2_0FlashThinking" -> "gemini-2.0-flash-thinking"
    [] m = "G2_5Flash" -> "gemini-2.0-flash"
    [] m = "G2_5Pro" -> "gemini-2.5-pro"
    [] m = "G2_0ExpAdvanced" -> "gemini-2.0-exp-advanced"
    [] m = "G2_5ExpAdvanced" -> "gemini-2.5-exp-advanced"

\* Model::name
Name(m) ==
  CASE m = "Unspecified" -> "unspecified"
    [] m = "G2_0Flash" -> "gemini-2.0-flash"
    [] m = "G2_0FlashThinking" -> "gemini-2.0-flash-thinking"
    [] m = "G2_5Flash" -> "gemini-2.5-flash"
    [] m = "G2_5Pro" -> "gemini-2.5-pro"
    [] m = "G2_0ExpAdvanced" -> "gemini-2.0-exp-advanced"
    [] m = "G2_5ExpAdvanced" -> "gemini-2.5-exp-advanced"

\* Model::from_name; "None" is Option::None
\* from_name with Unspecified for a name that is none of the seven
FromNameOrUnspecified(name) ==
  IF \E m \in Models : Name(m) = name
  THEN CHOOSE m \in Models : Name(m) = name
  ELSE "Unspecified"

FromName(name) ==
  CASE name = "unspecified" -> "Unspecified"
    [] name = "gemini-2.0-flash" -> "G2_0Flash"
    [] name = "gemini-2.0-flash-thinking" -> "G2_0FlashThinking"
    [] name = "gemini-2.5-flash" -> "G2_5Flash"
    [] name = "gemini-2.5-pro" -> "G2_5Pro"
    [] name = "gemini-2.0-exp-advanced" -> "G2_0ExpAdvanced"
    [] name = "gemini-2.5-exp-advanced" -> "G2_5ExpAdvanced"
    [] OTHER -> "None"

(***************************************************************************)
(* The state: the fields of AsyncChatbot, the persistence file, and what   *)
(* the step just taken sent, received and returned.                        *)
(***************************************************************************)
VARIABLES
  pc,               \* where the client is: "none" (no client), "rotate",
                    \* "init" (inside new), "idle", "upload", "generate"
                    \* (inside ask), "panicked"
  snlm0e,           \* AsyncChatbot.snlm0e, the session token
  conversation_id,  \* AsyncChatbot.conversation_id
  response_id,      \* AsyncChatbot.response_id
  choice_id,        \* AsyncChatbot.choice_id
  reqid,            \* AsyncChatbot.reqid, the nonce (u32)
  secure_1psidts,   \* AsyncChatbot.secure_1psidts, the held secondary cookie
  model,            \* AsyncChatbot.model
  overflow_checks,  \* the build: TRUE when u32 += panics on overflow
                    \* (debug profile), FALSE when it wraps (release profile)
  jar,              \* the two cookies the client's cookie jar holds
  proxy,            \* AsyncChatbot.proxy, "" for None
  cookie_file,      \* the cookie file load_cookies is given
  cookie_result,    \* what load_cookies returned (NotCalled: not called)
  file,             \* the persistence file
  req,              \* the request the last step sent (NoRequest: none)
  sent,             \* the _reqid of every generate request sent, in order
  answer,           \* the answer the last step received (NoAnswer: none)
  response,         \* the text the last step handed to parse_response
  reply,            \* the ChatResponse the last step returned (NoReply: none)
  result,           \* the call the last step finished and how it ended
  nsaves,           \* successful save_conversation calls so far
  saved             \* per name, the session as of the last successful save

vars ==
  <<pc, snlm0e, conversation_id, response_id, choice_id, reqid,
    secure_1psidts, model, overflow_checks, jar, proxy, cookie_file,
    cookie_result, file, req, sent, answer, response, reply, result, nsaves,
    saved>>

(***************************************************************************)
(* Random draws (rand::thread_rng().gen_range).                            *)
(***************************************************************************)
\* client.rs:167, 573: gen_range(1000000..9999999)
SeedMin == 1000000
SeedEnd == 9999999
\* client.rs:467: gen_range(1000..9000)
DeltaMin == 1000
DeltaEnd == 9000

\* the draws the model takes: both ends of each range
Seeds == {U32(SeedMin), U32(SeedEnd - 1)}

\* a delta range that starts at 0
DeltasFromZero == {0, DeltaEnd - 1}

Deltas == {DeltaMin, DeltaEnd - 1}

(***************************************************************************)
(* Requests, replies and results.                                          *)
(***************************************************************************)
NoRequest == [kind |-> "none", reqid |-> <<>>, at |-> "", triple |-> <<>>,
              upload |-> "", via |-> ""]

\* client.rs:232-238
RotateRequest == [NoRequest EXCEPT !.kind = "rotate"]

\* client.rs:186
InitRequest == [NoRequest EXCEPT !.kind = "init"]

\* utils.rs:95-99
UploadRequest == [NoRequest EXCEPT !.kind = "upload", !.via = proxy]

\* the generate request of a new conversation, whatever the session holds
GenerateRequestNewConversation(upload_id) ==
  [kind |-> "generate",
   reqid |-> U32ToString(reqid),
   at |-> snlm0e,
   triple |-> <<"", "", "">>,
   upload |-> upload_id,
   via |-> proxy]

\* client.rs:281-314: the generate request built from the session as it is;
\* upload_id is "" when there is no attachment
GenerateRequest(upload_id) ==
  [kind |-> "generate",
   reqid |-> U32ToString(reqid),
   at |-> snlm0e,
   triple |-> <<conversation_id, response_id, choice_id>>,
   upload |-> upload_id,
   via |-> proxy]

NoReply ==
  [content |-> "", conversation_id |-> "", response_id |-> "",
   factuality_queries |-> NoValue, text_query |-> "", choices |-> <<>>,
   error |-> TRUE]

\* a call that finished: which, how, and the conversation name it was given
Named(op, res, name) == [op |-> op, res |-> res, name |-> name]

Done(op, res) == Named(op, res, "")

\* the step finished no call
Running == Done("none", "")

\* what a collaborator answered: which one, whether the transport delivered
\* an answer at all, and the HTTP status
Answer(from, transport_ok, status) ==
  [from |-> from, transport_ok |-> transport_ok,
   status |-> IF transport_ok THEN status ELSE 0]

NoAnswer == Answer("none", FALSE, 0)

\* the answer is an HTTP response with a success status
Succeeded(a) == a.transport_ok /\ 200 <= a.status /\ a.status <= 299

\* StatusCode::is_success
IsSuccess(status) == 200 <= status /\ status <= 299

(***************************************************************************)
(* new, get_snlm0e and rotate_cookies.                                     *)
(***************************************************************************)
\* the primary cookie values new is called with
PsidValues == {"", "psid"}

\* the secondary cookie values new is called with
PsidtsValues == {"", "ts1"}

NewModels == {"G2_5Pro"}

\* an init page: whether it holds a login-page marker, the text the token
\* pattern captures ("" when the pattern does not match) and whether it
\* holds "429"
InitPages ==
  [login : BOOLEAN, token : {"", "abc123"}, has429 : BOOLEAN]

InitStatuses == {200, 401, 403, 500}

\* the page of an answer that is no init response
NoPage == [login |-> FALSE, token |-> "", has429 |-> FALSE]

\* what the init GET was answered with: the answer and the page it carried
InitAnswer(transport_ok, status, text) ==
  [from |-> "init", transport_ok |-> transport_ok,
   status |-> IF transport_ok THEN status ELSE 0,
   page |-> IF transport_ok THEN text ELSE NoPage]

\* how new finished; shown is the status its error message carries, 0 when
\* it carries none
NewResult(res, shown) ==
  [op |-> "new", res |-> res, name |-> "", shown |-> shown]

\* get_snlm0e with the login markers looked for before the status
GetSnlm0eMarkersFirst(status, text) ==
  IF text.login THEN [res |-> "Authentication", token |-> "", shown |-> 0]
  ELSE IF ~IsSuccess(status)
  THEN [res |-> IF status = 401 \/ status = 403 THEN "Authentication"
                ELSE "Parse",
        token |-> "", shown |-> status]
  ELSE IF text.token # ""
  THEN [res |-> "Ok", token |-> text.token, shown |-> 0]
  ELSE [res |-> "Parse", token |-> "", shown |-> 0]

\* client.rs:188-228: what get_snlm0e makes of the init response
GetSnlm0e(status, text) ==
  IF ~IsSuccess(status)
  THEN IF status = 401 \/ status = 403
       THEN [res |-> "Authentication", token |-> "", shown |-> status]
       ELSE [res |-> "Parse", token |-> "", shown |-> status]
  ELSE IF text.login THEN [res |-> "Authentication", token |-> "", shown |-> 0]
  ELSE IF text.token # ""
  THEN [res |-> "Ok", token |-> text.token, shown |-> 0]
  ELSE [res |-> "Parse", token |-> "", shown |-> 0]

\* no cookie jar
NoJar == [secure_1psid |-> "", secure_1psidts |-> ""]

\* the proxies new is called with, "" for None
Proxies == {"", "http://127.0.0.1:8080"}

\* the fields of a client that does not exist
NoClient ==
  /\ snlm0e' = ""
  /\ conversation_id' = ""
  /\ response_id' = ""
  /\ choice_id' = ""
  /\ reqid' = <<0, 0>>
  /\ secure_1psidts' = ""
  /\ model' = "Unspecified"
  /\ jar' = NoJar
  /\ proxy' = ""

\* new without its check of the primary cookie
NewUnchecked(secure_1psid, psidts, m, proxy_url, seed) ==
  /\ pc = "none"
  /\ jar' = [secure_1psid |-> secure_1psid, secure_1psidts |-> psidts]
  /\ proxy' = proxy_url
  /\ snlm0e' = ""
  /\ conversation_id' = ""
  /\ response_id' = ""
  /\ choice_id' = ""
  /\ reqid' = seed
  /\ secure_1psidts' = psidts
  /\ model' = m
  /\ pc' = IF psidts = "" THEN "rotate" ELSE "init"
  /\ req' = IF psidts = "" THEN RotateRequest ELSE InitRequest
  /\ result' = Running
  /\ answer' = NoAnswer
  /\ response' = <<>>
  /\ reply' = NoReply
  /\ UNCHANGED <<overflow_checks, cookie_file, cookie_result, file, sent,
                 nsaves, saved>>

\* client.rs:111-184: new up to its first request
New(secure_1psid, psidts, m, proxy_url, seed) ==
  /\ pc = "none"
  /\ IF secure_1psid = ""
     THEN /\ result' = NewResult("Authentication", 0)
          /\ req' = NoRequest
          /\ UNCHANGED <<pc, snlm0e, conversation_id, response_id, choice_id,
                         reqid, secure_1psidts, model, jar, proxy>>
     ELSE /\ jar' = [secure_1psid |-> secure_1psid,
                     secure_1psidts |-> psidts]
          /\ proxy' = proxy_url
          /\ snlm0e' = ""
          /\ conversation_id' = ""
          /\ response_id' = ""
          /\ choice_id' = ""
          /\ reqid' = seed
          /\ secure_1psidts' = psidts
          /\ model' = m
          /\ pc' = IF psidts = "" THEN "rotate" ELSE "init"
          /\ req' = IF psidts = "" THEN RotateRequest ELSE InitRequest
          /\ result' = Running
  /\ answer' = NoAnswer
  /\ response' = <<>>
  /\ reply' = NoReply
  /\ UNCHANGED <<overflow_checks, cookie_file, cookie_result, file, sent,
                 nsaves, saved>>

\* the cookies a rotation response carries
RotateCookies ==
  {<<>>,
   <<[name |-> "NID", value |-> "n"],
     [name |-> "__Secure-1PSIDTS", value |-> "ts1"]>>}

RotateStatuses == {200, 401}

RECURSIVE FirstPsidts(_)
\* client.rs:247-253: the first cookie of that name, "" when there is none
FirstPsidts(cookies) ==
  IF cookies = <<>> THEN ""
  ELSE IF Head(cookies).name = "__Secure-1PSIDTS" THEN Head(cookies).value
  ELSE FirstPsidts(Tail(cookies))

\* client.rs:231-256: the held cookie after rotate_cookies
RotateCookiesResult(transport_ok, status, cookies) ==
  IF transport_ok /\ IsSuccess(status) /\ FirstPsidts(cookies) # ""
  THEN FirstPsidts(cookies)
  ELSE secure_1psidts

\* client.rs:138: the cookie store of the client keeps the cookies of every
\* response it receives, whatever the status
JarAfter(transport_ok, cookies) ==
  IF transport_ok /\ FirstPsidts(cookies) # ""
  THEN [jar EXCEPT !.secure_1psidts = FirstPsidts(cookies)]
  ELSE jar

\* a rotation whose failure is returned to the caller of new
RotateReplyReturnsFailure(transport_ok, status, cookies) ==
  /\ pc = "rotate"
  /\ IF transport_ok
     THEN /\ secure_1psidts' =
               RotateCookiesResult(transport_ok, status, cookies)
          /\ jar' = JarAfter(transport_ok, cookies)
          /\ pc' = "init"
          /\ req' = InitRequest
          /\ result' = Running
          /\ UNCHANGED <<snlm0e, conversation_id, response_id, choice_id,
                         reqid, model, proxy>>
     ELSE /\ NoClient
          /\ pc' = "none"
          /\ req' = NoRequest
          /\ result' = NewResult("Network", 0)
  /\ answer' = Answer("rotate", transport_ok, status)
  /\ response' = <<>>
  /\ reply' = NoReply
  /\ UNCHANGED <<overflow_checks, cookie_file, cookie_result, file, sent,
                 nsaves, saved>>

\* client.rs:182-186: the rotation's answer arrives; its outcome is discarded
\* and the init GET is sent
RotateReply(transport_ok, status, cookies) ==
  /\ pc = "rotate"
  /\ secure_1psidts' = RotateCookiesResult(transport_ok, status, cookies)
  /\ jar' = JarAfter(transport_ok, cookies)
  /\ pc' = "init"
  /\ req' = InitRequest
  /\ answer' = Answer("rotate", transport_ok, status)
  /\ response' = <<>>
  /\ reply' = NoReply
  /\ result' = Running
  /\ UNCHANGED <<snlm0e, conversation_id, response_id, choice_id, reqid, model,
                 overflow_checks, cookie_file, cookie_result, proxy, file,
                 sent, nsaves, saved>>

\* client.rs:174-176, 186-228: the init GET's answer arrives and new returns
InitReply(transport_ok, status, text) ==
  /\ pc = "init"
  /\ LET got == IF transport_ok THEN GetSnlm0e(status, text)
                ELSE [res |-> "Network", token |-> "", shown |-> 0]
     IN  IF got.res = "Ok"
         THEN /\ snlm0e' = got.token
              /\ pc' = "idle"
              /\ result' = NewResult("Ok", 0)
              /\ UNCHANGED <<conversation_id, response_id, choice_id, reqid,
                             secure_1psidts, model, jar, proxy>>
         ELSE /\ NoClient
              /\ pc' = "none"
              /\ result' = NewResult(got.res, got.shown)
  /\ req' = NoRequest
  /\ answer' = InitAnswer(transport_ok, status, text)
  /\ response' = <<>>
  /\ reply' = NoReply
  /\ UNCHANGED <<overflow_checks, cookie_file, cookie_result, file, sent,
                 nsaves, saved>>

(***************************************************************************)
(* parse_response.                                                         *)
(***************************************************************************)
\* client.rs:405-411
NewConversationId(body) == StrOr(At(At(body, 1), 0), conversation_id)

\* the response id read from the envelope's first id
NewResponseIdFromFirst(body) == StrOr(At(At(body, 1), 0), response_id)

\* client.rs:413-419
NewResponseId(body) == StrOr(At(At(body, 1), 1), response_id)

\* the identifier of the last Choice
NewChoiceIdLast(choices) ==
  IF choices # <<>> THEN choices[Len(choices)].id ELSE choice_id

\* client.rs:458-461
NewChoiceId(choices) ==
  IF choices # <<>> THEN choices[1].id ELSE choice_id

\* the nonce advanced on entry to parse_response, before the checks
ReqidAfterAlways(found, delta) == WrappingAdd(reqid, delta)

\* client.rs:467: reqid += delta.  The nonce parse_response leaves; found is
\* whether the two structural checks passed (client.rs:327, 383).  An add
\* that leaves the type panics when the build checks overflow, and the nonce
\* is then as it was.
ReqidAfter(found, delta) ==
  IF found /\ ~(overflow_checks /\ AddOverflows(reqid, delta))
  THEN WrappingAdd(reqid, delta)
  ELSE reqid

\* client.rs:325-478: what parse_response returns for a text and a random
\* delta, and the session it leaves.  res is "Ok", "Parse", or "Panic".  It
\* panics when the snippet of a text of fewer than 3 lines ends inside a
\* character (client.rs:330), the session untouched; and when the build
\* checks overflow and reqid += delta leaves the type: the three assignments
\* before it (client.rs:464-466) have been made by then.
ParseResponse(text, delta) ==
  LET body == FindBody(text)
      found == Len(text) >= 3 /\ body # NoValue
      choices == Choices(body)
      panics == overflow_checks /\ AddOverflows(reqid, delta)
  IN  IF ~found
      THEN [res |-> IF Len(text) < 3 /\ SnippetPanics(text) THEN "Panic"
                    ELSE "Parse",
            conversation_id |-> conversation_id,
            response_id |-> response_id, choice_id |-> choice_id,
            reqid |-> ReqidAfter(found, delta), reply |-> NoReply]
      ELSE [res |-> IF panics THEN "Panic" ELSE "Ok",
            conversation_id |-> NewConversationId(body),
            response_id |-> NewResponseId(body),
            choice_id |-> NewChoiceId(choices),
            reqid |-> ReqidAfter(found, delta),
            reply |-> IF panics THEN NoReply
                      ELSE [content |-> ContentOf(body),
                            conversation_id |-> NewConversationId(body),
                            response_id |-> NewResponseId(body),
                            factuality_queries |-> FactualityQueries(body),
                            text_query |-> StrOr(At(At(body, 2), 0), ""),
                            choices |-> choices,
                            error |-> FALSE]]

(***************************************************************************)
(* Generate responses the model draws from.                                *)
(***************************************************************************)
\* an envelope body: index 1 the ids, index 2 the echo, index 3 the
\* metadata, index 4 the candidates
Envelope(ids, meta, candidates) ==
  Arr(<<Null, ids, Arr(<<Str("Hi")>>), meta, candidates>>)

Candidate(id, content) == Arr(<<id, Arr(<<Str(content)>>)>>)

\* a response text around a body: the prefix line, an empty line, a length
\* line, and the line that carries the body
TextOf(body) ==
  << <<Ch(")"), Ch("]"), Ch("}"), Ch("'")>>,
     <<>>,
     <<Ch("1")>>,
     <<Doc(Arr(<<Arr(<<Str("wrb.fr"), Null, JsonText(body)>>)>>))>> >>

Bodies ==
  {Envelope(Arr(<<Str("c1"), Str("r1")>>), Null,
            Arr(<<Candidate(Str("ch1"), "Hello!")>>)),
   Envelope(Arr(<<Str("c2"), Str("r2")>>), Arr(<<Str("q")>>),
            Arr(<<Candidate(Str("ch2"), "Bye"),
                  Candidate(Str("ch3"), "Alt")>>)),
   \* no ids at index 1
   Envelope(Null, Null, Arr(<<Candidate(Str("ch1"), "Hello!")>>)),
   \* no candidates
   Envelope(Arr(<<Str("c1"), Str("r1")>>), Null, Arr(<<>>)),
   \* no response id, and a candidate whose id is not a string
   Envelope(Arr(<<Str("c1")>>), Null, Arr(<<Candidate(Null, "x")>>))}

Texts ==
  {TextOf(b) : b \in Bodies}
  \cup {\* fewer than 3 lines
        << <<Ch(")"), Ch("]"), Ch("}"), Ch("'")>>, <<>> >>,
        \* one line of 67 characters of 3 bytes each: 201 bytes
        << <<Run(3, 67)>> >>,
        \* 3 lines and no envelope
        << <<Ch(")"), Ch("]"), Ch("}"), Ch("'")>>, <<>>,
           <<Doc(Arr(<<Arr(<<Str("e"), Null, Null>>)>>))>> >>}

GenerateStatuses == {200, 500}

(***************************************************************************)
(* ask.                                                                    *)
(***************************************************************************)
\* ask without its check of the token
AskUnchecked(image) ==
  /\ pc = "idle"
  /\ Len(sent) < MaxAsks
  /\ pc' = IF image THEN "upload" ELSE "generate"
  /\ req' = IF image THEN UploadRequest ELSE GenerateRequest("")
  /\ sent' = IF image THEN sent ELSE Append(sent, U32ToString(reqid))
  /\ result' = Running
  /\ answer' = NoAnswer
  /\ response' = <<>>
  /\ reply' = NoReply
  /\ UNCHANGED <<snlm0e, conversation_id, response_id, choice_id, reqid,
                 secure_1psidts, model, overflow_checks, cookie_file,
                 cookie_result, jar, proxy, file, nsaves, saved>>

\* client.rs:266-314: ask up to its first request
Ask(image) ==
  /\ pc = "idle"
  /\ IF snlm0e = ""
     THEN /\ result' = Done("ask", "NotInitialized")
          /\ req' = NoRequest
          /\ UNCHANGED <<pc, sent>>
     ELSE /\ Len(sent) < MaxAsks
          /\ pc' = IF image THEN "upload" ELSE "generate"
          /\ req' = IF image THEN UploadRequest ELSE GenerateRequest("")
          /\ sent' = IF image THEN sent ELSE Append(sent, U32ToString(reqid))
          /\ result' = Running
  /\ answer' = NoAnswer
  /\ response' = <<>>
  /\ reply' = NoReply
  /\ UNCHANGED <<snlm0e, conversation_id, response_id, choice_id, reqid,
                 secure_1psidts, model, overflow_checks, cookie_file,
                 cookie_result, jar, proxy, file, nsaves, saved>>

\* the upload's status left unchecked
UploadFileAnyStatus(transport_ok, status, text) ==
  IF transport_ok THEN [res |-> "Ok", id |-> text]
  ELSE [res |-> "Upload", id |-> ""]

\* utils.rs:95-115: Ok(text) or Err(Upload)
UploadFile(transport_ok, status, text) ==
  IF transport_ok /\ IsSuccess(status)
  THEN [res |-> "Ok", id |-> text]
  ELSE [res |-> "Upload", id |-> ""]

\* client.rs:274-314: the upload's answer arrives
UploadReply(transport_ok, status, text) ==
  /\ pc = "upload"
  /\ LET up == UploadFile(transport_ok, status, text)
     IN  IF up.res = "Ok"
         THEN /\ pc' = "generate"
              /\ req' = GenerateRequest(up.id)
              /\ sent' = Append(sent, U32ToString(reqid))
              /\ result' = Running
         ELSE /\ pc' = "idle"
              /\ req' = NoRequest
              /\ result' = Done("ask", "Upload")
              /\ UNCHANGED sent
  /\ answer' = Answer("upload", transport_ok, status)
  /\ response' = <<>>
  /\ reply' = NoReply
  /\ UNCHANGED <<snlm0e, conversation_id, response_id, choice_id, reqid,
                 secure_1psidts, model, overflow_checks, cookie_file,
                 cookie_result, jar, proxy, file, nsaves, saved>>

\* client.rs:308-322: the generate endpoint's answer arrives and ask returns
GenerateReply(transport_ok, status, text, delta) ==
  /\ pc = "generate"
  /\ IF ~transport_ok \/ ~IsSuccess(status)
     THEN /\ pc' = "idle"
          /\ result' = Done("ask", "Network")
          /\ response' = <<>>
          /\ reply' = NoReply
          /\ UNCHANGED <<conversation_id, response_id, choice_id, reqid>>
     ELSE LET out == ParseResponse(text, delta)
          IN  /\ conversation_id' = out.conversation_id
              /\ response_id' = out.response_id
              /\ choice_id' = out.choice_id
              /\ reqid' = out.reqid
              /\ response' = text
              /\ reply' = out.reply
              /\ result' = Done("ask", out.res)
              /\ pc' = IF out.res = "Panic" THEN "panicked" ELSE "idle"
  /\ req' = NoRequest
  /\ answer' = Answer("generate", transport_ok, status)
  /\ UNCHANGED <<snlm0e, secure_1psidts, model, overflow_checks, cookie_file,
                 cookie_result, jar, proxy, file, sent, nsaves, saved>>

\* reset that leaves the choice id
ResetKeepsChoice(seed) ==
  /\ pc = "idle"
  /\ conversation_id' = ""
  /\ response_id' = ""
  /\ reqid' = seed
  /\ result' = Done("reset", "Ok")
  /\ req' = NoRequest
  /\ answer' = NoAnswer
  /\ response' = <<>>
  /\ reply' = NoReply
  /\ UNCHANGED <<pc, snlm0e, choice_id, secure_1psidts, model, overflow_checks,
                 cookie_file, cookie_result, jar, proxy, file, sent, nsaves,
                 saved>>

\* reset that clears the token with the conversation
ResetClearsToken(seed) ==
  /\ pc = "idle"
  /\ snlm0e' = ""
  /\ conversation_id' = ""
  /\ response_id' = ""
  /\ choice_id' = ""
  /\ reqid' = seed
  /\ result' = Done("reset", "Ok")
  /\ req' = NoRequest
  /\ answer' = NoAnswer
  /\ response' = <<>>
  /\ reply' = NoReply
  /\ UNCHANGED <<pc, secure_1psidts, model, overflow_checks, cookie_file,
                 cookie_result, jar, proxy, file, sent, nsaves, saved>>

\* reset callable while an exchange of the session is in flight
ResetDuringExchange(seed) ==
  /\ pc \in {"idle", "generate"}
  /\ conversation_id' = ""
  /\ response_id' = ""
  /\ choice_id' = ""
  /\ reqid' = seed
  /\ result' = IF pc = "idle" THEN Done("reset", "Ok") ELSE result
  /\ req' = IF pc = "idle" THEN NoRequest ELSE req
  /\ answer' = NoAnswer
  /\ response' = <<>>
  /\ reply' = NoReply
  /\ UNCHANGED <<pc, snlm0e, secure_1psidts, model, overflow_checks,
                 cookie_file, cookie_result, jar, proxy, file, sent, nsaves,
                 saved>>

\* client.rs:569-574
Reset(seed) ==
  /\ pc = "idle"
  /\ conversation_id' = ""
  /\ response_id' = ""
  /\ choice_id' = ""
  /\ reqid' = seed
  /\ result' = Done("reset", "Ok")
  /\ req' = NoRequest
  /\ answer' = NoAnswer
  /\ response' = <<>>
  /\ reply' = NoReply
  /\ UNCHANGED <<pc, snlm0e, secure_1psidts, model, overflow_checks,
                 cookie_file, cookie_result, jar, proxy, file, sent, nsaves,
                 saved>>

(***************************************************************************)
(* Persistence.  The file is absent, or holds text that is not a JSON list *)
(* of conversation records (valid = FALSE), or holds such a list: objects  *)
(* is the list, each record a JSON object by its keys (client.rs:49-61).   *)
(***************************************************************************)
Names == {"a", "b"}

\* chrono_now (client.rs:578-584): the seconds since the epoch, in decimal.
\* The clock is taken to advance by one second with every save.
ChronoNow == U32ToString(U32(1700000000 + nsaves))

\* serde_json::to_string_pretty of one SavedConversation
Serialize(conv) ==
  [conversation_name |-> conv.conversation_name,
   _reqid |-> U32ToString(conv.reqid),
   SNlM0e |-> conv.snlm0e,
   conversation_id |-> conv.conversation_id,
   response_id |-> conv.response_id,
   choice_id |-> conv.choice_id,
   model_name |-> conv.model_name,
   timestamp |-> conv.timestamp]

\* a record read with the response id and the choice id exchanged
DeserializeSwapped(obj) ==
  LET n == ParseU32(obj._reqid)
  IN  [ok |-> n.ok,
       v |-> [conversation_name |-> obj.conversation_name,
              reqid |-> n.v,
              conversation_id |-> obj.conversation_id,
              response_id |-> obj.choice_id,
              choice_id |-> obj.response_id,
              snlm0e |-> obj.SNlM0e,
              model_name |-> obj.model_name,
              timestamp |-> obj.timestamp]]

\* serde_json::from_str of one record: [ok, v]
Deserialize(obj) ==
  LET n == ParseU32(obj._reqid)
  IN  [ok |-> n.ok,
       v |-> [conversation_name |-> obj.conversation_name,
              reqid |-> n.v,
              conversation_id |-> obj.conversation_id,
              response_id |-> obj.response_id,
              choice_id |-> obj.choice_id,
              snlm0e |-> obj.SNlM0e,
              model_name |-> obj.model_name,
              timestamp |-> obj.timestamp]]

\* client.rs:520-528: Ok(list) or Err(Json)
LoadConversations ==
  LET parsed == [i \in DOMAIN file.objects |-> Deserialize(file.objects[i])]
  IN  IF ~file.exists THEN [res |-> "Ok", list |-> <<>>]
      ELSE IF ~file.valid \/ \E i \in DOMAIN parsed : ~parsed[i].ok
      THEN [res |-> "Json", list |-> <<>>]
      ELSE [res |-> "Ok", list |-> [i \in DOMAIN parsed |-> parsed[i].v]]

\* the index of the first record of that name, 0 when there is none
FirstNamed(conversations, name) ==
  IF \E i \in DOMAIN conversations : conversations[i].conversation_name = name
  THEN CHOOSE i \in DOMAIN conversations :
         /\ conversations[i].conversation_name = name
         /\ \A j \in 1..(i - 1) : conversations[j].conversation_name # name
  ELSE 0

\* the record always appended
UpsertAppends(conversations, data) == Append(conversations, data)

\* client.rs:495-506: replace the first record of that name, else append
Upsert(conversations, data) ==
  LET i == FirstNamed(conversations, data.conversation_name)
  IN  IF i # 0 THEN [conversations EXCEPT ![i] = data]
      ELSE Append(conversations, data)

\* client.rs:484-493
ConversationData(name, now) ==
  [conversation_name |-> name,
   reqid |-> reqid,
   conversation_id |-> conversation_id,
   response_id |-> response_id,
   choice_id |-> choice_id,
   snlm0e |-> snlm0e,
   model_name |-> Name(model),
   timestamp |-> now]

\* the session as save_conversation records it
Snapshot ==
  [set |-> TRUE, reqid |-> reqid, conversation_id |-> conversation_id,
   response_id |-> response_id, choice_id |-> choice_id, snlm0e |-> snlm0e,
   model |-> model]

NoSnapshot ==
  [set |-> FALSE, reqid |-> <<0, 0>>, conversation_id |-> "",
   response_id |-> "", choice_id |-> "", snlm0e |-> "",
   model |-> "Unspecified"]

\* client.rs:481-517.  io_ok is whether create_dir_all and the write succeed;
\* a failing write is taken to leave the file as it was.
SaveConversation(name, io_ok) ==
  /\ pc = "idle"
  /\ LET loaded == LoadConversations
         conversations == Upsert(loaded.list, ConversationData(name, ChronoNow))
     IN  IF loaded.res # "Ok"
         THEN /\ result' = Named("save", loaded.res, name)
              /\ UNCHANGED <<file, nsaves, saved>>
         ELSE IF ~io_ok
         THEN /\ result' = Named("save", "Io", name)
              /\ UNCHANGED <<file, nsaves, saved>>
         ELSE /\ file' = [exists |-> TRUE, valid |-> TRUE,
                          objects |-> [i \in DOMAIN conversations |->
                                         Serialize(conversations[i])]]
              /\ result' = Named("save", "Ok", name)
              /\ nsaves' = nsaves + 1
              /\ saved' = [saved EXCEPT ![name] = Snapshot]
  /\ req' = NoRequest
  /\ answer' = NoAnswer
  /\ response' = <<>>
  /\ reply' = NoReply
  /\ UNCHANGED <<pc, snlm0e, conversation_id, response_id, choice_id, reqid,
                 secure_1psidts, model, overflow_checks, cookie_file,
                 cookie_result, jar, proxy, sent>>

\* client.rs:531-555
LoadConversation(name) ==
  /\ pc = "idle"
  /\ LET loaded == LoadConversations
         i == FirstNamed(loaded.list, name)
     IN  IF loaded.res # "Ok"
         THEN /\ result' = Named("load", loaded.res, name)
              /\ UNCHANGED <<snlm0e, conversation_id, response_id, choice_id,
                             reqid, model>>
         ELSE IF i = 0
         THEN /\ result' = Named("load", "Miss", name)
              /\ UNCHANGED <<snlm0e, conversation_id, response_id, choice_id,
                             reqid, model>>
         ELSE LET conv == loaded.list[i]
              IN  /\ reqid' = conv.reqid
                  /\ conversation_id' = conv.conversation_id
                  /\ response_id' = conv.response_id
                  /\ choice_id' = conv.choice_id
                  /\ snlm0e' = conv.snlm0e
                  /\ model' = IF FromName(conv.model_name) # "None"
                              THEN FromName(conv.model_name) ELSE model
                  /\ result' = Named("load", "Hit", name)
  /\ req' = NoRequest
  /\ answer' = NoAnswer
  /\ response' = <<>>
  /\ reply' = NoReply
  /\ UNCHANGED <<pc, secure_1psidts, overflow_checks, cookie_file,
                 cookie_result, jar, proxy, file, sent, nsaves, saved>>

(***************************************************************************)
(* The files a behaviour may start with.                                   *)
(***************************************************************************)
AbsentFile == [exists |-> FALSE, valid |-> FALSE, objects |-> <<>>]

EmptyList == [exists |-> TRUE, valid |-> TRUE, objects |-> <<>>]

\* a file whose text is not a list of records (zero bytes, or anything else)
Unreadable == [exists |-> TRUE, valid |-> FALSE, objects |-> <<>>]

Object(name, digits, c, r, ch, token, model_name, now) ==
  [conversation_name |-> name, _reqid |-> digits, SNlM0e |-> token,
   conversation_id |-> c, response_id |-> r,
   choice_id |-> ch, model_name |-> model_name, timestamp |-> now]

\* a file written earlier: two records under one name, a nonce 1000 below
\* 2^32, a nonce of 0, an empty token, a model name no variant has
EarlierFile ==
  [exists |-> TRUE, valid |-> TRUE,
   objects |->
     <<Object("a", <<4, 2, 9, 4, 9, 6, 6, 2, 9, 6>>, "c9", "r9", "ch9",
              "old", "gemini-2.5-flash", <<1, 6>>),
       Object("b", <<5>>, "", "", "", "", "gemini-9", <<1, 6>>),
       Object("a", <<7>>, "c7", "r7", "ch7", "older", "unspecified",
              <<1, 5>>)>>]

InitFiles == {AbsentFile, Unreadable, EarlierFile}

(***************************************************************************)
(* The specification.                                                      *)
(***************************************************************************)
(***************************************************************************)
(* utils.rs: load_cookies.  A cookie name is the sequence of its           *)
(* characters.                                                             *)
(***************************************************************************)
\* char::to_uppercase of the ASCII letters
UpperOf ==
  [a |-> "A", b |-> "B", c |-> "C", d |-> "D", e |-> "E", f |-> "F",
   g |-> "G", h |-> "H", i |-> "I", j |-> "J", k |-> "K", l |-> "L",
   m |-> "M", n |-> "N", o |-> "O", p |-> "P", q |-> "Q", r |-> "R",
   s |-> "S", t |-> "T", u |-> "U", v |-> "V", w |-> "W", x |-> "X",
   y |-> "Y", z |-> "Z"]

\* a name left as it is written
SameCase(name) == name

\* utils.rs:52: str::to_uppercase, over ASCII names
ToUppercase(name) ==
  [i \in DOMAIN name |->
     IF name[i] \in DOMAIN UpperOf THEN UpperOf[name[i]] ELSE name[i]]

\* utils.rs:53: "__SECURE-1PSID"
UpperPsid ==
  <<"_", "_", "S", "E", "C", "U", "R", "E", "-", "1", "P", "S", "I", "D">>

\* utils.rs:54: "__SECURE-1PSIDTS"
UpperPsidts == UpperPsid \o <<"T", "S">>

\* load_cookies was not called
NotCalled == [res |-> "", psid |-> "", psidts |-> "", names |-> ""]

RECURSIVE LastValue(_, _)
\* utils.rs:48-57: the value the loop leaves for a name, "None" when no
\* entry has it: a later entry replaces an earlier one
LastValue(entries, upper) ==
  IF entries = <<>> THEN "None"
  ELSE IF ToUppercase(entries[Len(entries)].name) = upper
  THEN entries[Len(entries)].value
  ELSE LastValue(SubSeq(entries, 1, Len(entries) - 1), upper)

\* utils.rs:35-68: what load_cookies returns for a file; names is the cookie
\* the message of a Cookie error names
LoadCookies(f) ==
  IF ~f.exists THEN [NotCalled EXCEPT !.res = "Cookie", !.names = "path"]
  ELSE IF ~f.valid THEN [NotCalled EXCEPT !.res = "Cookie", !.names = "json"]
  ELSE LET secure_1psid == LastValue(f.entries, UpperPsid)
           psidts == LastValue(f.entries, UpperPsidts)
       IN  IF secure_1psid # "None" /\ psidts # "None"
           THEN [NotCalled EXCEPT !.res = "Ok", !.psid = secure_1psid,
                                  !.psidts = psidts]
           ELSE IF secure_1psid = "None"
           THEN [NotCalled EXCEPT !.res = "Cookie",
                                  !.names = "__Secure-1PSID"]
           ELSE [NotCalled EXCEPT !.res = "Cookie",
                                  !.names = "__Secure-1PSIDTS"]

\* the names of the entries the model draws: the two required names as a
\* browser writes them, one of them in lower case, and another cookie
EntryNames ==
  {<<"_", "_", "S", "e", "c", "u", "r", "e", "-", "1", "P", "S", "I", "D">>,
   <<"_", "_", "s", "e", "c", "u", "r", "e", "-", "1", "p", "s", "i", "d">>,
   <<"_", "_", "S", "e", "c", "u", "r", "e", "-", "1", "P", "S", "I", "D",
     "T", "S">>,
   <<"N", "I", "D">>}

CookieEntries == [name : EntryNames, value : {"v1", "v2"}]

\* the lists of at most n entries
EntryLists(n) == UNION {[1..k -> CookieEntries] : k \in 0..n}

\* no cookie file given
NoCookieFile == [exists |-> FALSE, valid |-> FALSE, entries |-> <<>>]

\* the cookie files: absent, not JSON, and every list of entries
CookieFiles ==
  {NoCookieFile, [exists |-> TRUE, valid |-> FALSE, entries |-> <<>>]}
  \cup {[exists |-> TRUE, valid |-> TRUE, entries |-> es] :
          es \in EntryLists(MaxCookies)}

\* the call of load_cookies
LoadCookiesCall ==
  /\ pc = "none"
  /\ cookie_result = NotCalled
  /\ cookie_result' = LoadCookies(cookie_file)
  /\ UNCHANGED <<pc, snlm0e, conversation_id, response_id, choice_id, reqid,
                 secure_1psidts, model, overflow_checks, jar, proxy,
                 cookie_file, file, req, sent, answer, response, reply,
                 result, nsaves, saved>>

InitWith(files) ==
  /\ pc = "none"
  /\ snlm0e = ""
  /\ conversation_id = ""
  /\ response_id = ""
  /\ choice_id = ""
  /\ reqid = <<0, 0>>
  /\ secure_1psidts = ""
  /\ model = "Unspecified"
  /\ overflow_checks \in BOOLEAN
  /\ jar = NoJar
  /\ proxy = ""
  /\ cookie_file = NoCookieFile
  /\ cookie_result = NotCalled
  /\ file \in files
  /\ req = NoRequest
  /\ sent = <<>>
  /\ answer = NoAnswer
  /\ response = <<>>
  /\ reply = NoReply
  /\ result = Running
  /\ nsaves = 0
  /\ saved = [n \in Names |-> NoSnapshot]

Init == InitWith(InitFiles)

\* every call but save_conversation, with the collaborators' answers and the
\* random draws taken from the given sets
Calls(texts, seeds, deltas, proxies) ==
  \/ \E secure_1psid \in PsidValues, psidts \in PsidtsValues,
        m \in NewModels, proxy_url \in proxies, seed \in seeds :
       New(secure_1psid, psidts, m, proxy_url, seed)
  \/ \E transport_ok \in BOOLEAN, status \in RotateStatuses,
        cookies \in RotateCookies :
       RotateReply(transport_ok, status, cookies)
  \/ \E transport_ok \in BOOLEAN, status \in InitStatuses, text \in InitPages :
       InitReply(transport_ok, status, text)
  \/ \E image \in BOOLEAN : Ask(image)
  \/ \E transport_ok \in BOOLEAN, status \in GenerateStatuses :
       UploadReply(transport_ok, status, "img1")
  \/ \E transport_ok \in BOOLEAN, status \in GenerateStatuses,
        text \in texts, delta \in deltas :
       GenerateReply(transport_ok, status, text, delta)
  \/ \E seed \in seeds : Reset(seed)
  \/ \E name \in Names : LoadConversation(name)

Saves(max) ==
  \E name \in Names, io_ok \in BOOLEAN :
    nsaves < max /\ SaveConversation(name, io_ok)

\* the answers and draws of the specifications that follow the file
FewTexts ==
  {TextOf(Envelope(Arr(<<Str("c1"), Str("r1")>>), Null,
                   Arr(<<Candidate(Str("ch1"), "Hello!")>>))),
   << <<Ch(")"), Ch("]"), Ch("}"), Ch("'")>>, <<>> >>}

FewSeeds == {U32(SeedMin)}

FewDeltas == {DeltaMin}

FewProxies == {""}

\* All calls.
Next == Calls(FewTexts, FewSeeds, FewDeltas, FewProxies) \/ Saves(MaxSaves)

Spec == Init /\ [][Next]_vars

\* All calls, from a file that is absent or holds the empty list.
NextFresh ==
  Calls(FewTexts, FewSeeds, FewDeltas, FewProxies) \/ Saves(MaxFreshSaves)

SpecFresh == InitWith({AbsentFile, EmptyList}) /\ [][NextFresh]_vars

\* The exchanges in detail: every call but save_conversation, over all the
\* generate responses and draws of the model, the file as it was left.
NextExchange == Calls(Texts, Seeds, Deltas, FewProxies)

SpecExchange == InitWith({AbsentFile, EarlierFile}) /\ [][NextExchange]_vars

\* The session across new and reset: every call but save_conversation, with
\* and without a proxy, over both ends of the seed range, no file.
NextSession == Calls(FewTexts, Seeds, FewDeltas, Proxies)

SpecSession == InitWith({AbsentFile}) /\ [][NextSession]_vars

(***************************************************************************)
(* The decoder in detail: one client, its exchanges answered with texts of *)
(* three lines drawn from DecoderLines.                                    *)
(***************************************************************************)
\* a part of an envelope line that carries a body
Part(body) == Arr(<<Str("wrb.fr"), Null, JsonText(body)>>)

\* one Choice
BodyA ==
  Envelope(Arr(<<Str("c1"), Str("r1")>>), Null,
           Arr(<<Candidate(Str("ch1"), "Hello!")>>))

\* candidates that make no Choice (one element; not an array) among
\* candidates that do: an identifier that is no string, a text that is
\* missing, and a plain one
BodyB ==
  Envelope(Arr(<<Str("c2"), Str("r2")>>), Null,
           Arr(<<Arr(<<Str("solo")>>), Null, Candidate(Null, "x"),
                 Arr(<<Str("ch5"), Null>>), Candidate(Str("ch6"), "Alt")>>))

\* candidates, none of which makes a Choice
BodyC ==
  Envelope(Arr(<<Str("c3"), Str("r3")>>), Null,
           Arr(<<Arr(<<Str("solo")>>), Null>>))

\* no candidates
BodyD == Envelope(Arr(<<Str("c4"), Str("r4")>>), Null, Arr(<<>>))

\* the body of the lines that start with the sentinel
BodyE ==
  Envelope(Arr(<<Str("c5"), Str("r5")>>), Null,
           Arr(<<Candidate(Str("ch7"), "Late")>>))

\* parts that fail one condition each (length, tag, index 2 no string, index
\* 2 not JSON, 4 elements, index 4 null, no array), then two that carry a
\* body
MixedParts ==
  <<Arr(<<Str("wrb.fr"), Null>>),
    Arr(<<Str("e"), Null, JsonText(BodyA)>>),
    Arr(<<Str("wrb.fr"), Null, Null>>),
    Arr(<<Str("wrb.fr"), Null, Str("oops")>>),
    Arr(<<Str("wrb.fr"), Null, JsonText(Arr(<<Null, Null, Null, Null>>))>>),
    Arr(<<Str("wrb.fr"), Null,
          JsonText(Arr(<<Null, Null, Null, Null, Null>>))>>),
    Null,
    Part(BodyB),
    Part(BodyA)>>

DecoderLines ==
  {\* the prefix as the server sends it, the sentinel alone, an empty line
   Sentinel \o <<Ch("'")>>, Sentinel, <<>>,
   \* a line that starts with [ and is not JSON
   <<Ch("["), Ch("x")>>,
   <<Doc(Arr(<<Part(BodyA)>>))>>,
   <<Doc(Arr(MixedParts))>>,
   <<Doc(Arr(<<Part(BodyC)>>))>>,
   <<Doc(Arr(<<Part(BodyD)>>))>>,
   \* an envelope line after the sentinel: directly, after one more
   \* character, after spaces
   Sentinel \o <<Doc(Arr(<<Part(BodyE)>>))>>,
   Sentinel \o <<Ch("'"), Doc(Arr(<<Part(BodyE)>>))>>,
   Sentinel \o <<Ch(" "), Ch(" "), Doc(Arr(<<Part(BodyE)>>)), Ch(" ")>>}

\* the third lines of the texts
LastLines ==
  {<<>>,
   <<Doc(Arr(<<Part(BodyA)>>))>>,
   <<Doc(Arr(MixedParts))>>,
   Sentinel \o <<Doc(Arr(<<Part(BodyE)>>))>>}

DecoderTexts ==
  {<<a, b, c>> : a \in DecoderLines, b \in DecoderLines, c \in LastLines}

\* an init page that holds the token
TokenPage == [login |-> FALSE, token |-> "abc123", has429 |-> FALSE]

NextDecoder ==
  \/ \E m \in NewModels, seed \in FewSeeds : New("psid", "ts1", m, "", seed)
  \/ InitReply(TRUE, 200, TokenPage)
  \/ Ask(FALSE)
  \/ \E text \in DecoderTexts : GenerateReply(TRUE, 200, text, DeltaMin)

SpecDecoder == InitWith({AbsentFile}) /\ [][NextDecoder]_vars

\* the client goes out of scope: its fields are no more, the file stays
DropClient ==
  /\ pc = "idle"
  /\ NoClient
  /\ pc' = "none"
  /\ result' = Running
  /\ req' = NoRequest
  /\ answer' = NoAnswer
  /\ response' = <<>>
  /\ reply' = NoReply
  /\ UNCHANGED <<overflow_checks, cookie_file, cookie_result, file, sent,
                 nsaves, saved>>

\* Clients of every model, one after the other, saving to and loading from
\* one file.
NextModels ==
  \/ \E m \in Models, seed \in FewSeeds : New("psid", "ts1", m, "", seed)
  \/ InitReply(TRUE, 200, TokenPage)
  \/ \E name \in Names : nsaves < MaxSaves /\ SaveConversation(name, TRUE)
  \/ \E name \in Names : LoadConversation(name)
  \/ DropClient

SpecModels == InitWith({AbsentFile}) /\ [][NextModels]_vars

\* load_cookies over every cookie file of the model.
InitCookies ==
  /\ pc = "none"
  /\ snlm0e = ""
  /\ conversation_id = ""
  /\ response_id = ""
  /\ choice_id = ""
  /\ reqid = <<0, 0>>
  /\ secure_1psidts = ""
  /\ model = "Unspecified"
  /\ overflow_checks = FALSE
  /\ jar = NoJar
  /\ proxy = ""
  /\ cookie_file \in CookieFiles
  /\ cookie_result = NotCalled
  /\ file = AbsentFile
  /\ req = NoRequest
  /\ sent = <<>>
  /\ answer = NoAnswer
  /\ response = <<>>
  /\ reply = NoReply
  /\ result = Running
  /\ nsaves = 0
  /\ saved = [n \in Names |-> NoSnapshot]

NextCookies == LoadCookiesCall

SpecCookies == InitCookies /\ [][NextCookies]_vars

(***************************************************************************)
(* What an envelope carries, as the properties speak of it.                *)
(***************************************************************************)
triple == <<conversation_id, response_id, choice_id>>

\* the client exists
Live == pc # "none"

\* the first candidate of the envelope that makes a Choice, NoValue if none
FirstChoiceCandidate(body) ==
  LET c == At(body, 4)
  IN  IF c.t = "arr" /\ \E i \in DOMAIN c.a :
                          c.a[i].t = "arr" /\ Len(c.a[i].a) > 1
      THEN c.a[CHOOSE i \in DOMAIN c.a :
                 /\ c.a[i].t = "arr" /\ Len(c.a[i].a) > 1
                 /\ \A j \in 1..(i - 1) :
                      ~(c.a[j].t = "arr" /\ Len(c.a[j].a) > 1)]
      ELSE NoValue

\* v if the envelope carries a string there, else the value held before
CarriedOr(v, held) == IF v.t = "str" THEN v.s ELSE held

\* the last step was ask returning a Reply
AskOk == result = Done("ask", "Ok")

(***************************************************************************)
(* C1.  As stated: after a successful ask each entry of the triple is the  *)
(* one the envelope of that exchange carries, and an entry the envelope    *)
(* does not carry keeps the value it had before.                           *)
(***************************************************************************)
C1_AbsentEntriesKept ==
  [][AskOk' =>
       LET body == FindBody(response')
       IN  /\ conversation_id' = CarriedOr(At(At(body, 1), 0), conversation_id)
           /\ response_id' = CarriedOr(At(At(body, 1), 1), response_id)
           /\ choice_id' = CarriedOr(At(FirstChoiceCandidate(body), 0),
                                     choice_id)]_vars

(***************************************************************************)
(* C1, amended.  After a successful ask the conversation id and the        *)
(* response id are those the envelope carries, each keeping its value when *)
(* the envelope carries no string there; the choice id is the identifier   *)
(* of the first Choice the envelope yields, which is the empty string when *)
(* that candidate's identifier is not a string, and it keeps its value     *)
(* only when the envelope yields no Choice.                                *)
(***************************************************************************)
C1_TripleFollowsEnvelope ==
  [][AskOk' =>
       LET body == FindBody(response')
           first == FirstChoiceCandidate(body)
       IN  /\ conversation_id' = CarriedOr(At(At(body, 1), 0), conversation_id)
           /\ response_id' = CarriedOr(At(At(body, 1), 1), response_id)
           /\ choice_id' = IF first = NoValue THEN choice_id
                           ELSE CarriedOr(At(first, 0), "")]_vars

\* a successful ask whose envelope carried no ids, on a session that held
\* some: the held conversation id was kept
C1_Witness ==
  /\ AskOk
  /\ At(FindBody(response), 1) = Null
  /\ conversation_id # ""
  /\ choice_id = "ch1"

(***************************************************************************)
(* C2.  A step of ask that does not return a Reply leaves the session      *)
(* token, the continuation triple and the nonce as they were: so when ask  *)
(* ends in NotInitialized, Upload, Network or Parse, they have the values  *)
(* they had before the call.                                               *)
(***************************************************************************)
\* the step belongs to a call of ask
AskStep ==
  \/ pc \in {"upload", "generate"}
  \/ pc = "idle" /\ (pc' \in {"upload", "generate"} \/ result'.op = "ask")

C2_FailedAskLeavesSession ==
  [][AskStep /\ result'.res \notin {"Ok", "Panic"} =>
       UNCHANGED <<snlm0e, triple, reqid>>]_vars

\* ask ended in Parse on a text of 3 lines or more (no envelope found), on a
\* session that held a conversation
C2_Witness ==
  /\ result = Done("ask", "Parse")
  /\ Len(response) >= 3
  /\ conversation_id # ""

(***************************************************************************)
(* C3.  An ask made while the token is empty ends at once in               *)
(* NotInitialized and sends nothing; no upload request is sent and no      *)
(* generate request is built while the token is empty, so no generate      *)
(* request carries an empty token.                                         *)
(***************************************************************************)
C3_NoExchangeWithoutToken ==
  [][/\ (req'.kind = "generate" => req'.at # "")
     /\ (req'.kind \in {"upload", "generate"} => snlm0e # "")
     /\ (pc = "idle" /\ snlm0e = "" /\ AskStep =>
           /\ result' = Done("ask", "NotInitialized")
           /\ req' = NoRequest
           /\ pc' = "idle"
           /\ sent' = sent)]_vars

\* ask has ended in NotInitialized on a client whose token is empty
C3_Witness ==
  /\ result = Done("ask", "NotInitialized")
  /\ pc = "idle"
  /\ snlm0e = ""

(***************************************************************************)
(* C4.  An ask with an attachment sends the upload first.  When the upload *)
(* is answered with a non-success status (or not at all) ask ends in       *)
(* Upload, no generate request is sent and the session is unchanged; a     *)
(* generate request that carries an attachment is sent only in the step    *)
(* that received the upload's successful answer.                           *)
(***************************************************************************)
C4_UploadFailureAborts ==
  [][/\ (pc = "idle" /\ pc' = "upload" =>
           req'.kind = "upload" /\ sent' = sent)
     /\ (pc = "upload" /\ ~Succeeded(answer') =>
           /\ result' = Done("ask", "Upload")
           /\ pc' = "idle"
           /\ req'.kind # "generate"
           /\ sent' = sent
           /\ UNCHANGED <<snlm0e, triple, reqid>>)
     /\ (pc = "upload" /\ Succeeded(answer') =>
           req'.kind = "generate" /\ req'.upload # "")
     /\ (req'.kind = "generate" /\ req'.upload # "" =>
           pc = "upload" /\ answer'.from = "upload" /\ Succeeded(answer'))]_vars

\* the upload collaborator answered 500 and ask ended in Upload
C4_Witness ==
  /\ result = Done("ask", "Upload")
  /\ answer = Answer("upload", TRUE, 500)
  /\ req.kind # "generate"

(***************************************************************************)
(* C5.  As stated: the nonce of a client is positive in every state and no *)
(* two generate requests of the session carry the same nonce.              *)
(***************************************************************************)
C5_NoncePositiveNeverRepeats ==
  /\ (Live => reqid # <<0, 0>>)
  /\ \A i, j \in DOMAIN sent : i < j => sent[i] # sent[j]

(***************************************************************************)
(* C6.  After each successful ask the nonce differs from the value it had  *)
(* before that ask, whatever that value was.                               *)
(***************************************************************************)
C6_NonceChanges == [][AskOk' => reqid' # reqid]_vars

\* a successful ask whose add left the type: the nonce wrapped to a value
\* below the largest delta
C6_Witness ==
  /\ AskOk
  /\ ~overflow_checks
  /\ U32Lt(reqid, U32(DeltaEnd))

(***************************************************************************)
(* C7.  As stated: the entries of the triple are all empty or all set.     *)
(***************************************************************************)
C7_AllEmptyOrAllSet ==
  Live => \/ conversation_id = "" /\ response_id = "" /\ choice_id = ""
          \/ conversation_id # "" /\ response_id # "" /\ choice_id # ""

\* the strings the envelopes of the model carry at index k of their ids
EnvelopeIds(k) == {CarriedOr(At(At(b, 1), k), "") : b \in Bodies}

\* the ids of the choices the envelopes of the model make
ChoiceIds == UNION {{Choices(b)[i].id : i \in DOMAIN Choices(b)} : b \in Bodies}

\* the values the records of the files hold in a field
RecordIds(field) ==
  UNION {{f.objects[i][field] : i \in DOMAIN f.objects} : f \in InitFiles}

(***************************************************************************)
(* C7, amended.  The triple is all empty after new and after reset; in     *)
(* every state each entry is empty, or a string of an envelope, or the     *)
(* value of a loaded record; and the triple changes only in a step where   *)
(* ask decodes an envelope, in reset and in a load_conversation hit.       *)
(***************************************************************************)
C7_EntriesFromRepliesOrRecords ==
  /\ [](Live =>
          /\ conversation_id \in
               {""} \cup EnvelopeIds(0) \cup RecordIds("conversation_id")
          /\ response_id \in
               {""} \cup EnvelopeIds(1) \cup RecordIds("response_id")
          /\ choice_id \in {""} \cup ChoiceIds \cup RecordIds("choice_id"))
  /\ [](Live /\ (pc \in {"rotate", "init"} \/ result.op \in {"new", "reset"})
          => triple = <<"", "", "">>)
  /\ [][Live /\ triple' # triple =>
          \/ result'.op = "ask" /\ result'.res \in {"Ok", "Panic"}
          \/ result' = Done("reset", "Ok")
          \/ result'.op = "load" /\ result'.res = "Hit"]_vars

\* a successful ask on a fresh conversation whose envelope carried no ids:
\* the choice id is set, the other two are empty
C7_Witness ==
  /\ AskOk
  /\ At(FindBody(response), 1) = Null
  /\ triple = <<"", "", "ch1">>

(***************************************************************************)
(* C8.  As stated: the token changes only in Token Acquisition, the held   *)
(* cookie only in Cookie Rotation (run by Token Acquisition), the triple   *)
(* and the nonce only in the Response Decoder.                             *)
(***************************************************************************)
C8_OnlyThreeMutators ==
  [][Live /\ Live' =>
       /\ (snlm0e' # snlm0e => pc = "init")
       /\ (secure_1psidts' # secure_1psidts => pc = "rotate")
       /\ (triple' # triple \/ reqid' # reqid => pc = "generate")]_vars

\* the step is a load_conversation that found the name
LoadHit == pc = "idle" /\ result'.op = "load" /\ result'.res = "Hit"

\* the step is reset
ResetStep == pc = "idle" /\ result' = Done("reset", "Ok")

(***************************************************************************)
(* C8, amended.  The token changes only in Token Acquisition and in a      *)
(* load_conversation hit; the held cookie only in Cookie Rotation; the     *)
(* triple and the nonce only in the Response Decoder, in reset and in a    *)
(* load_conversation hit; the model only in a load_conversation hit.       *)
(* Every other step (ask up to the decoder, a failed ask, save, a load     *)
(* that misses) leaves all of them.                                        *)
(***************************************************************************)
C8_MutatorsWithResetAndLoad ==
  [][Live /\ Live' =>
       /\ (snlm0e' # snlm0e => pc = "init" \/ LoadHit)
       /\ (secure_1psidts' # secure_1psidts => pc = "rotate")
       /\ (triple' # triple \/ reqid' # reqid =>
             pc = "generate" \/ ResetStep \/ LoadHit)
       /\ (model' # model => LoadHit)]_vars

\* load_conversation has replaced the token, the nonce and the triple
C8_Witness ==
  /\ result = Named("load", "Hit", "a")
  /\ snlm0e = "old"
  /\ triple = <<"c9", "r9", "ch9">>
  /\ reqid = <<Base - 1, Base - DeltaMin>>

(***************************************************************************)
(* C9.  Once a save under a name has succeeded, every later                *)
(* load_conversation of that name returns a hit and leaves the nonce, the  *)
(* triple and the token as they were at the last successful save under     *)
(* that name, whatever the file held before and whatever ask, reset, load  *)
(* or save under another name came between.                                *)
(***************************************************************************)
C9_SaveThenLoadRestores ==
  \A n \in Names :
    saved[n].set /\ result.op = "load" /\ result.name = n =>
      /\ result.res = "Hit"
      /\ reqid = saved[n].reqid
      /\ triple = <<saved[n].conversation_id, saved[n].response_id,
                    saved[n].choice_id>>
      /\ snlm0e = saved[n].snlm0e

\* "a" was saved, a successful ask moved the session on, "b" was saved, and
\* load_conversation("a") has brought the first state back, in a file that
\* held records before
C9_Witness ==
  /\ result = Named("load", "Hit", "a")
  /\ saved["a"].set /\ saved["b"].set
  /\ saved["a"].reqid # saved["b"].reqid
  /\ saved["a"].conversation_id # saved["b"].conversation_id
  /\ Len(file.objects) = 3

\* the names of the records, in the order of the file
RecordNames(objects) == [i \in DOMAIN objects |-> objects[i].conversation_name]

\* the records under the other names, in the order of the file
Others(objects, name) ==
  SelectSeq(objects, LAMBDA o : o.conversation_name # name)

\* the record holds the state of that save
HoldsSnapshot(obj, s) ==
  LET d == Deserialize(obj)
  IN  /\ d.ok
      /\ d.v.reqid = s.reqid
      /\ d.v.conversation_id = s.conversation_id
      /\ d.v.response_id = s.response_id
      /\ d.v.choice_id = s.choice_id
      /\ d.v.snlm0e = s.snlm0e
      /\ d.v.model_name = Name(s.model)

(***************************************************************************)
(* C10.  From an absent or empty file: the file holds at most one record   *)
(* per name, and exactly the names saved; the record of a name holds the   *)
(* state of the last successful save under it; the file changes only in a  *)
(* successful save, which leaves the records of the other names as they    *)
(* were and in their order, replaces the record of its name in place and   *)
(* appends it when the name is new.                                        *)
(***************************************************************************)
C10_KeyedLastWriteWins ==
  /\ [](/\ \A i, j \in DOMAIN file.objects :
             i # j => file.objects[i].conversation_name
                        # file.objects[j].conversation_name
        /\ \A i \in DOMAIN file.objects :
             /\ file.objects[i].conversation_name \in Names
             /\ saved[file.objects[i].conversation_name].set
             /\ HoldsSnapshot(file.objects[i],
                              saved[file.objects[i].conversation_name])
        /\ \A n \in Names :
             saved[n].set =>
               \E i \in DOMAIN file.objects :
                 file.objects[i].conversation_name = n)
  /\ [][file' # file =>
          \E n \in Names :
            /\ pc = "idle"
            /\ result' = Named("save", "Ok", n)
            /\ Others(file'.objects, n) = Others(file.objects, n)
            /\ RecordNames(file'.objects) =
                 IF \E i \in DOMAIN file.objects :
                      file.objects[i].conversation_name = n
                 THEN RecordNames(file.objects)
                 ELSE Append(RecordNames(file.objects), n)]_vars

\* "a" then "b" were saved and the third save, under "a" again after a
\* successful ask, has replaced the first record in place
C10_Witness ==
  /\ result = Named("save", "Ok", "a")
  /\ nsaves = 3
  /\ RecordNames(file.objects) = <<"a", "b">>
  /\ file.objects[1].conversation_id = "c1"
  /\ file.objects[2].conversation_id = ""

(***************************************************************************)
(* C11.  As stated: whenever the init response carries a login-page        *)
(* marker, new fails with Authentication, whatever the status of the       *)
(* response and whether or not the page also matches the token pattern.    *)
(***************************************************************************)
C11_LoginMarkerIsAuthentication ==
  answer.from = "init" /\ answer.transport_ok /\ answer.page.login =>
    result.op = "new" /\ result.res = "Authentication"

\* the init GET was answered and new has returned
InitAnswered == answer.from = "init" /\ answer.transport_ok

\* no client was returned and no token is held
NoClientReturned == pc = "none" /\ snlm0e = ""

(***************************************************************************)
(* C12.  An init response with status 401 or 403 makes new fail with       *)
(* Authentication; one with any other non-success status makes it fail     *)
(* with Parse, the message carrying the status; one with a success status, *)
(* no login marker and no token match makes it fail with Parse.  In each   *)
(* case no client is returned and no token is stored.                      *)
(***************************************************************************)
C12_InitStatusClasses ==
  InitAnswered =>
    /\ (answer.status \in {401, 403} =>
          /\ result.op = "new" /\ result.res = "Authentication"
          /\ NoClientReturned)
    /\ (~IsSuccess(answer.status) /\ answer.status \notin {401, 403} =>
          /\ result = NewResult("Parse", answer.status)
          /\ NoClientReturned)
    /\ (IsSuccess(answer.status) /\ ~answer.page.login
          /\ answer.page.token = "" =>
          /\ result.op = "new" /\ result.res = "Parse"
          /\ NoClientReturned)
    /\ (result.op = "new" /\ result.res # "Ok" => NoClientReturned)

\* status 500 with a page that holds a login marker and the token pattern:
\* new has failed with Parse carrying 500
C12_Witness ==
  /\ InitAnswered
  /\ answer.status = 500
  /\ answer.page.login /\ answer.page.token = "abc123"
  /\ result = NewResult("Parse", 500)
  /\ NoClientReturned

(***************************************************************************)
(* C13.  new sends the rotation request exactly when the secondary cookie  *)
(* it was given is empty, and the init GET otherwise.  The rotation        *)
(* request is sent only there, once, before the init GET.  Whatever the    *)
(* rotation is answered with, the next step sends the init GET and returns *)
(* nothing to the caller.  No request is sent again after its answer: the  *)
(* step that receives the answer of the init GET or of the generate POST   *)
(* sends nothing, and so does the step that receives a failed upload.      *)
(***************************************************************************)
C13_RotationBestEffortNoRetry ==
  [][/\ (pc = "none" /\ pc' # "none" =>
           IF secure_1psidts' = ""
           THEN pc' = "rotate" /\ req' = RotateRequest
           ELSE pc' = "init" /\ req' = InitRequest)
     /\ (pc = "rotate" =>
           /\ pc' = "init"
           /\ req' = InitRequest
           /\ result' = Running
           /\ answer'.from = "rotate")
     /\ (req'.kind = "rotate" => pc = "none")
     /\ (req'.kind = "init" => pc \in {"none", "rotate"})
     /\ (req'.kind = "upload" => pc = "idle")
     /\ (req'.kind = "generate" => pc \in {"idle", "upload"})
     /\ (pc \in {"init", "generate"} => req' = NoRequest)
     /\ (pc = "upload" /\ ~Succeeded(answer') => req' = NoRequest)]_vars

\* the rotation got no answer, the cookie is still empty, and the init GET
\* has been sent with nothing returned to the caller
C13_Witness ==
  /\ pc = "init"
  /\ answer = Answer("rotate", FALSE, 0)
  /\ secure_1psidts = ""
  /\ req = InitRequest
  /\ result = Running

\* the generate POST was answered with a success status and its text was
\* handed to parse_response
Decoded ==
  result.op = "ask" /\ answer.from = "generate" /\ Succeeded(answer)

(***************************************************************************)
(* C14.  As stated: parse_response fails exactly when the text has fewer   *)
(* than 3 lines or no line carries an envelope body, the failure is Parse, *)
(* and when a body is found it returns a Reply whose error flag is false.  *)
(***************************************************************************)
C14_OnlyStructuralFailures ==
  Decoded =>
    IF Len(response) < 3 \/ FindBody(response) = NoValue
    THEN result.res = "Parse"
    ELSE result.res = "Ok" /\ reply.error = FALSE

(***************************************************************************)
(* C15.  When ask returns a Reply, its metadata is the value the envelope  *)
(* body holds at index 3, whatever that value is: null when index 3 is     *)
(* null.  A body whose index 3 is null is not a Parse failure.             *)
(***************************************************************************)
C15_MetadataPassedThrough ==
  /\ (AskOk =>
        /\ reply.error = FALSE
        /\ reply.factuality_queries = FindBody(response).a[4])
  /\ (Decoded /\ Len(response) >= 3 /\ FindBody(response) # NoValue =>
        result.res # "Parse")

\* a Reply whose metadata is the array the envelope carried at index 3
C15_Witness ==
  /\ AskOk
  /\ reply.factuality_queries = Arr(<<Str("q")>>)
  /\ reply.content = "Bye"

(***************************************************************************)
(* C16.  From a session that holds token "abc123" and an empty triple, an  *)
(* ask without attachment whose generate POST is answered with status 200  *)
(* and the well-formed text around the envelope (ids c1, r1; one candidate *)
(* ch1, "Hello!") returns a Reply with content "Hello!" and the one choice *)
(* (ch1, "Hello!"), and leaves the triple (c1, r1, ch1).                   *)
(***************************************************************************)
C16_EndToEnd ==
  [][/\ pc = "generate"
     /\ snlm0e = "abc123"
     /\ triple = <<"", "", "">>
     /\ req.upload = ""
     /\ Succeeded(answer')
     /\ response' =
          TextOf(Envelope(Arr(<<Str("c1"), Str("r1")>>), Null,
                          Arr(<<Candidate(Str("ch1"), "Hello!")>>)))
     => /\ req.at = "abc123" /\ req.triple = <<"", "", "">>
        /\ result' = Done("ask", "Ok")
        /\ reply'.content = "Hello!"
        /\ reply'.choices = <<[id |-> "ch1", content |-> "Hello!"]>>
        /\ reply'.error = FALSE
        /\ triple' = <<"c1", "r1", "ch1">>]_vars

\* the first ask of a new client has returned that Reply
C16_Witness ==
  /\ AskOk
  /\ Len(sent) = 1
  /\ snlm0e = "abc123"
  /\ reply.content = "Hello!"
  /\ reply.choices = <<[id |-> "ch1", content |-> "Hello!"]>>
  /\ triple = <<"c1", "r1", "ch1">>

\* the positions of the records of the file that have the name
NamedIn(objects, name) ==
  {i \in DOMAIN objects : objects[i].conversation_name = name}

(***************************************************************************)
(* C17.  load_conversation over a file that can be read: when no record    *)
(* has the name it reports a miss and leaves nonce, triple, token and      *)
(* model; when one has, it reports a hit and takes nonce, triple and token *)
(* from the first such record, and the model the record names, the model   *)
(* staying as it was when the name is that of no model.  Over a file that  *)
(* cannot be read it reports neither and leaves all four.                  *)
(***************************************************************************)
C17_LoadByName ==
  [][pc = "idle" /\ result'.op = "load" =>
       LET named == NamedIn(file.objects, result'.name)
       IN  IF file.exists /\ ~file.valid
           THEN /\ result'.res \notin {"Hit", "Miss"}
                /\ UNCHANGED <<reqid, triple, snlm0e, model>>
           ELSE IF named = {}
           THEN /\ result'.res = "Miss"
                /\ UNCHANGED <<reqid, triple, snlm0e, model>>
           ELSE LET o == file.objects[CHOOSE i \in named :
                                        \A j \in named : i <= j]
                IN  /\ result'.res = "Hit"
                    /\ U32ToString(reqid') = o._reqid
                    /\ triple' = <<o.conversation_id, o.response_id,
                                   o.choice_id>>
                    /\ snlm0e' = o.SNlM0e
                    /\ model' = IF \E m \in Models : Name(m) = o.model_name
                                THEN CHOOSE m \in Models :
                                       Name(m) = o.model_name
                                ELSE model]_vars

\* the record "b", whose model name is that of no model, has been loaded:
\* a hit, the model still the one new was given
C17_Witness ==
  /\ result = Named("load", "Hit", "b")
  /\ model = "G2_5Pro"
  /\ reqid = U32(5)
  /\ snlm0e = ""

(***************************************************************************)
(* C18.  reset empties the three entries of the triple and draws the nonce *)
(* from 1000000..9999998; it leaves the token, the cookies of the jar, the *)
(* held secondary cookie, the model and the proxy.  The ask that follows a *)
(* reset sends its request with the token and the proxy as they were and,  *)
(* when it is the generate request, with an empty triple.                  *)
(***************************************************************************)
C18_ResetKeepsAuthentication ==
  [][/\ (ResetStep =>
           /\ triple' = <<"", "", "">>
           /\ U32Le(U32(SeedMin), reqid')
           /\ U32Le(reqid', U32(SeedEnd - 1))
           /\ UNCHANGED <<snlm0e, jar, secure_1psidts, model, proxy>>)
     /\ (result = Done("reset", "Ok") /\ pc = "idle" /\ snlm0e # ""
           /\ AskStep =>
           /\ req'.kind \in {"upload", "generate"}
           /\ req'.via = proxy
           /\ (req'.kind = "generate" =>
                 /\ req'.at = snlm0e
                 /\ req'.triple = <<"", "", "">>
                 /\ req'.reqid = U32ToString(reqid)))]_vars

\* after a successful ask: reset has emptied the triple and drawn the
\* largest seed, the token and the proxy are held
C18_Witness ==
  /\ result = Done("reset", "Ok")
  /\ Len(sent) = 1
  /\ triple = <<"", "", "">>
  /\ reqid = U32(SeedEnd - 1)
  /\ snlm0e = "abc123"
  /\ proxy # ""
  /\ jar.secure_1psid = "psid"

\* the values of the entries of the file whose name is the required name in
\* some mix of cases, in the order of the file
ValuesNamed(entries, upper) ==
  LET hits == SelectSeq(entries,
                LAMBDA e : /\ Len(e.name) = Len(upper)
                           /\ \A i \in DOMAIN upper :
                                \/ e.name[i] = upper[i]
                                \/ /\ e.name[i] \in DOMAIN UpperOf
                                   /\ UpperOf[e.name[i]] = upper[i])
  IN  [i \in DOMAIN hits |-> hits[i].value]

(***************************************************************************)
(* C19.  load_cookies over a file that holds a list of entries: names are  *)
(* compared with the two required names without regard to case.  When      *)
(* both occur it returns the pair of their values (of the last entry of    *)
(* each name); when the primary is missing it fails with a Cookie error    *)
(* that names __Secure-1PSID, and when only the secondary is missing with  *)
(* a Cookie error that names __Secure-1PSIDTS.                             *)
(***************************************************************************)
C19_LoadCookies ==
  cookie_result # NotCalled /\ cookie_file.exists /\ cookie_file.valid =>
    LET psids == ValuesNamed(cookie_file.entries, UpperPsid)
        tss == ValuesNamed(cookie_file.entries, UpperPsidts)
    IN  /\ (psids # <<>> /\ tss # <<>> =>
              /\ cookie_result.res = "Ok"
              /\ cookie_result.psid = psids[Len(psids)]
              /\ cookie_result.psidts = tss[Len(tss)])
        /\ (psids = <<>> =>
              /\ cookie_result.res = "Cookie"
              /\ cookie_result.names = "__Secure-1PSID")
        /\ (psids # <<>> /\ tss = <<>> =>
              /\ cookie_result.res = "Cookie"
              /\ cookie_result.names = "__Secure-1PSIDTS")

\* the file names the primary cookie in lower case, then the secondary, then
\* the primary again: the pair holds the later primary value
C19_Witness ==
  /\ cookie_result.res = "Ok"
  /\ Len(cookie_file.entries) = 3
  /\ cookie_file.entries[1].name[3] = "s"
  /\ cookie_file.entries[1].value = "v1"
  /\ cookie_file.entries[3].value = "v2"
  /\ cookie_result.psid = "v2"
  /\ cookie_result.psidts = cookie_file.entries[2].value

\* an exchange of the session is in flight
InFlight == pc \in {"upload", "generate"}

SendsGenerate == sent' # sent

\* the step is the decoder of an exchange returning a Reply
DecodedOk == pc = "generate" /\ result' = Done("ask", "Ok")

(***************************************************************************)
(* C21.  A generate request carries the token, the nonce and the triple    *)
(* the session holds when it is built, and building it changes none of     *)
(* them.  On a client that goes on, they are changed only by the decoder   *)
(* of an exchange that returns a Reply, by reset and by a                  *)
(* load_conversation hit, so what exchange N+1 sends is what the last of   *)
(* these left.  The nonce is advanced by the decoder, after the answer     *)
(* has arrived, and never by the step that sends.                          *)
(***************************************************************************)
C21_RequestCarriesSessionState ==
  [][/\ (SendsGenerate =>
           /\ sent' = Append(sent, U32ToString(reqid))
           /\ req'.kind = "generate"
           /\ req'.reqid = U32ToString(reqid)
           /\ req'.at = snlm0e
           /\ req'.triple = triple
           /\ UNCHANGED <<snlm0e, reqid, triple>>)
     /\ (req'.kind = "generate" /\ req.kind # "generate" => SendsGenerate)
     /\ (pc \in {"idle", "upload", "generate"} /\ pc' # "panicked"
         /\ <<snlm0e, reqid, triple>>' # <<snlm0e, reqid, triple>> =>
           DecodedOk \/ ResetStep \/ LoadHit)
     /\ (reqid' # reqid /\ pc = "generate" =>
           /\ answer'.from = "generate"
           /\ Succeeded(answer')
           /\ FindBody(response') # NoValue)]_vars

\* the second generate request of a session is in flight, after a first
\* exchange that returned a Reply: it carries the conversation id and the
\* advanced nonce that exchange left
C21_Witness ==
  /\ pc = "generate"
  /\ Len(sent) = 2
  /\ req.reqid = sent[2]
  /\ sent[2] # sent[1]
  /\ req.triple[1] = "c1"
  /\ req.at = snlm0e

\* client.rs:339-353: the elements of the JSON array a line decodes to, none
\* when the line is skipped
LineParts(line) ==
  IF line = <<>> \/ line = Sentinel THEN <<>>
  ELSE LET clean_line == CleanLine(line)
           parsed == FromLine(clean_line)
       IN  IF /\ clean_line # <<>>
              /\ FirstChar(Head(clean_line)) = "["
              /\ parsed.ok
              /\ parsed.v.t = "arr"
           THEN parsed.v.a
           ELSE <<>>

\* the part meets every condition of an envelope
Qualifies(part) ==
  /\ part.t = "arr"
  /\ Len(part.a) > 2
  /\ part.a[1] = Str("wrb.fr")
  /\ part.a[3].t = "text"
  /\ part.a[3].a[1].t = "arr"
  /\ Len(part.a[3].a[1].a) > 4
  /\ part.a[3].a[1].a[5].t # "null"

\* the elements of a line that qualify, by their index
QualifyingIn(line) ==
  LET parts == LineParts(line)
  IN  {j \in DOMAIN parts : Qualifies(parts[j])}

\* the lines of a text that hold a qualifying part, by their index
QualifyingLines(text) == {i \in DOMAIN text : QualifyingIn(text[i]) # {}}

\* the least number of a non-empty set of numbers
Least(S) == CHOOSE n \in S : \A m \in S : n <= m

\* the body of the first qualifying part of the first line that holds one
FirstQualifying(text) ==
  LET line == text[Least(QualifyingLines(text))]
      parts == LineParts(line)
  IN  parts[Least({j \in DOMAIN parts : Qualifies(parts[j])})].a[3].a[1]

\* the step decodes the text of an answered, successful generate response of
\* at least 3 lines
Decodes ==
  /\ pc = "generate"
  /\ answer'.from = "generate"
  /\ Succeeded(answer')
  /\ Len(response') >= 3

(***************************************************************************)
(* C22.  For a response of at least 3 lines, the envelope body is that of  *)
(* the first part, in line order and then in element order within a line,  *)
(* that is an array tagged "wrb.fr" of length greater than 2 whose index 2 *)
(* is a string holding a JSON array of more than 4 elements with a         *)
(* non-null index 4.  Parts that fail a condition and lines that are not   *)
(* JSON are passed over; with no such part the ask fails with Parse; and   *)
(* the Reply is made of the first body alone, whatever the later parts and *)
(* lines hold.                                                             *)
(***************************************************************************)
C22_FirstQualifyingBody ==
  [][Decodes =>
       IF QualifyingLines(response') = {}
       THEN result' = Done("ask", "Parse") /\ reply' = NoReply
       ELSE \A body \in {FirstQualifying(response')} :
                /\ result'.res \in {"Ok", "Panic"}
                /\ result'.res = "Ok" =>
                     /\ reply'.choices = Choices(body)
                     /\ reply'.content = ContentOf(body)
                     /\ reply'.conversation_id =
                          CarriedOr(At(At(body, 1), 0), conversation_id)
                     /\ reply'.response_id =
                          CarriedOr(At(At(body, 1), 1), response_id)]_vars

\* a line that is not JSON, then a line whose eighth part is the first to
\* meet the conditions, then another envelope line: the Reply is that of the
\* eighth part
C22_Witness ==
  /\ AskOk
  /\ response = << <<Ch("["), Ch("x")>>, <<Doc(Arr(MixedParts))>>,
                   <<Doc(Arr(<<Part(BodyA)>>))>> >>
  /\ reply.conversation_id = "c2"
  /\ Len(reply.choices) = 3

\* a line that begins with the sentinel, without its 3 sentinel characters
\* and trimmed; any other line as it is
WithoutSentinel(line) ==
  IF StartsWithSentinel(line) THEN Trim(SubSeq(line, 4, Len(line))) ELSE line

\* the elements of the JSON array a line holds once the sentinel is removed,
\* none when the line is empty, the sentinel alone, or no JSON array
PartsWithoutSentinel(line) ==
  IF line = <<>> \/ line = Sentinel THEN <<>>
  ELSE LET content == WithoutSentinel(line)
           parsed == FromLine(content)
       IN  IF /\ content # <<>>
              /\ FirstChar(Head(content)) = "["
              /\ parsed.ok
              /\ parsed.v.t = "arr"
           THEN parsed.v.a
           ELSE <<>>

\* the lines of a text that hold a qualifying part once the sentinel is
\* removed, by their index
EnvelopeLines(text) ==
  {i \in DOMAIN text :
     \E j \in DOMAIN PartsWithoutSentinel(text[i]) :
       Qualifies(PartsWithoutSentinel(text[i])[j])}

(***************************************************************************)
(* C23.  Empty lines and a line that is the sentinel alone are skipped; a  *)
(* line that begins with the sentinel and goes on is decoded as what       *)
(* follows the 3 sentinel characters, trimmed.  So the lines that yield    *)
(* an envelope are those that hold one once the sentinel is removed: with  *)
(* none the ask fails with Parse, and otherwise the Reply is that of the   *)
(* first such line, a JSON array directly after the sentinel included.     *)
(***************************************************************************)
C23_SentinelRemoved ==
  [][Decodes =>
       IF EnvelopeLines(response') = {}
       THEN result' = Done("ask", "Parse")
       ELSE LET parts ==
                  PartsWithoutSentinel(
                    response'[Least(EnvelopeLines(response'))])
                body ==
                  parts[Least({j \in DOMAIN parts : Qualifies(parts[j])})]
                    .a[3].a[1]
            IN  /\ result'.res \in {"Ok", "Panic"}
                /\ result'.res = "Ok" =>
                     /\ reply'.choices = Choices(body)
                     /\ reply'.conversation_id =
                          CarriedOr(At(At(body, 1), 0), conversation_id)]_vars

\* the candidate list of a body
CandidatesOf(body) == IF At(body, 4).t = "arr" THEN At(body, 4).a ELSE <<>>

\* the candidates of a body that make a Choice: arrays of length > 1
ChoiceMakers(body) ==
  SelectSeq(CandidatesOf(body), LAMBDA c : c.t = "arr" /\ Len(c.a) > 1)

(***************************************************************************)
(* C24.  As stated: after a successful decode the session's choice id is   *)
(* the identifier of the first Choice of the Reply, and it is the choice   *)
(* id held before exactly when the envelope's candidate list is empty.     *)
(***************************************************************************)
C24_KeptOnlyWithoutCandidates ==
  [][DecodedOk =>
       IF CandidatesOf(FindBody(response')) = <<>>
       THEN choice_id' = choice_id
       ELSE /\ reply'.choices # <<>>
            /\ choice_id' = reply'.choices[1].id]_vars

(***************************************************************************)
(* C24, amended.  After a successful decode the session's choice id is the *)
(* identifier of the first Choice of the Reply when the Reply has one, and *)
(* the choice id held before when the Reply's Choice list is empty, which  *)
(* it is exactly when no candidate of the envelope is an array of length   *)
(* greater than 1: the candidate list may hold candidates then.            *)
(***************************************************************************)
C24_KeptWithoutChoices ==
  [][DecodedOk =>
       \A makers \in {ChoiceMakers(FindBody(response'))} :
           /\ (reply'.choices = <<>>) = (makers = <<>>)
           /\ choice_id' = IF makers = <<>> THEN choice_id
                           ELSE StrOr(At(makers[1], 0), "")
           /\ reply'.choices # <<>> => choice_id' = reply'.choices[1].id]_vars

\* a client that held the choice id of a first exchange has decoded an
\* envelope whose two candidates make no Choice: it holds that choice id
C24_Witness ==
  /\ AskOk
  /\ Len(sent) = 2
  /\ CandidatesOf(FindBody(response)) # <<>>
  /\ reply.choices = <<>>
  /\ reply.conversation_id = "c3"
  /\ choice_id = "ch1"

(***************************************************************************)
(* C25.  The Choice list of a Reply is the envelope's candidates that are  *)
(* arrays of length greater than 1, in the envelope's order, each with its *)
(* identifier (index 0) and its text (index 1, index 0), a value that is   *)
(* missing or no string giving the empty string.  Whenever candidate 0 is  *)
(* such an array, the Reply's answer text is the text of the first Choice. *)
(***************************************************************************)
C25_ChoicesAreCandidates ==
  [][DecodedOk =>
       \A makers \in {ChoiceMakers(FindBody(response'))},
          first \in {At(At(FindBody(response'), 4), 0)} :
           /\ reply'.choices =
                [i \in DOMAIN makers |->
                   [id |-> IF At(makers[i], 0).t = "str"
                           THEN At(makers[i], 0).s ELSE "",
                    content |-> IF At(At(makers[i], 1), 0).t = "str"
                                THEN At(At(makers[i], 1), 0).s ELSE ""]]
           /\ (first.t = "arr" /\ Len(first.a) > 1 =>
                 reply'.content = reply'.choices[1].content)]_vars

\* five candidates, of which the first two make no Choice: three Choices in
\* the envelope's order, one without identifier and one without text, and
\* an empty answer text
C25_Witness ==
  /\ AskOk
  /\ Len(CandidatesOf(FindBody(response))) = 5
  /\ reply.choices = <<[id |-> "", content |-> "x"],
                       [id |-> "ch5", content |-> ""],
                       [id |-> "ch6", content |-> "Alt"]>>
  /\ reply.content = ""

(***************************************************************************)
(* C26.  new returns a client only when Token Acquisition has succeeded:   *)
(* a client just returned holds the token the init page carried, which is  *)
(* not empty, and an all-empty triple, and the only step that returns a    *)
(* client is the arrival of a successful init answer.  A call of new with  *)
(* an empty primary cookie fails with Authentication in that step, with no *)
(* request sent, neither rotation nor init GET, and no cookie stored; any  *)
(* request of new is sent with a primary cookie that is not empty.         *)
(***************************************************************************)
C26_ClientOnlyAfterToken ==
  /\ [](result = NewResult("Ok", 0) =>
          /\ pc = "idle"
          /\ snlm0e # ""
          /\ triple = <<"", "", "">>
          /\ InitAnswered /\ Succeeded(answer)
          /\ snlm0e = answer.page.token)
  /\ [](req.kind \in {"rotate", "init"} => jar.secure_1psid # "")
  /\ [][/\ (pc \in {"none", "rotate", "init"} /\ pc' = "idle" =>
              /\ pc = "init"
              /\ result' = NewResult("Ok", 0))
        /\ (pc = "none" /\ jar'.secure_1psid = "" =>
              /\ result' = NewResult("Authentication", 0)
              /\ req' = NoRequest
              /\ answer' = NoAnswer
              /\ pc' = "none"
              /\ snlm0e' = "")
        /\ (pc = "none" /\ jar'.secure_1psid # "" =>
              /\ pc' \in {"rotate", "init"}
              /\ snlm0e' = "")]_vars

\* new has returned a client, through a proxy and after a rotation: it holds
\* the token of the init page and an empty triple
C26_Witness ==
  /\ result = NewResult("Ok", 0)
  /\ snlm0e = "abc123"
  /\ triple = <<"", "", "">>
  /\ jar.secure_1psid = "psid"
  /\ secure_1psidts = "ts1"
  /\ proxy # ""

(***************************************************************************)
(* C27.  When ask has returned a Reply, the Reply's conversation id and    *)
(* response id are those the session holds, and when the Reply has a       *)
(* Choice the session's choice id is the identifier of the first one.      *)
(***************************************************************************)
C27_ReplyIsSnapshot ==
  AskOk =>
    /\ reply.conversation_id = conversation_id
    /\ reply.response_id = response_id
    /\ (reply.choices # <<>> => choice_id = reply.choices[1].id)

\* a Reply of two Choices: the session holds the ids the Reply carries and
\* the identifier of the first Choice
C27_Witness ==
  /\ AskOk
  /\ Len(reply.choices) = 2
  /\ reply.conversation_id = "c2"
  /\ conversation_id = "c2"
  /\ response_id = "r2"
  /\ choice_id = "ch2"

(***************************************************************************)
(* C28.  Model names round-trip: from_name of the name of a variant is     *)
(* that variant, for each of the 7, and two variants never share a name.   *)
(* So when load_conversation has found a name that was saved, on whatever  *)
(* client, the selected model is the one the saving client had selected at *)
(* the last successful save under that name.                               *)
(***************************************************************************)
C28_ModelNamesRoundTrip ==
  /\ Cardinality(Models) = 7
  /\ \A m \in Models : FromName(Name(m)) = m
  /\ \A m1, m2 \in Models : Name(m1) = Name(m2) => m1 = m2
  /\ \A n \in Names :
       result = Named("load", "Hit", n) /\ saved[n].set =>
         model = saved[n].model

\* two names saved with different models selected, so by two clients; the
\* later client has loaded the name the earlier one saved and has that
\* client's model selected
C28_Witness ==
  /\ result = Named("load", "Hit", "a")
  /\ saved["a"].set /\ saved["b"].set
  /\ saved["a"].model = "G2_5ExpAdvanced"
  /\ saved["b"].model = "G2_0Flash"
  /\ file.objects[2].conversation_name = "b"
  /\ model = "G2_5ExpAdvanced"

====
